---- MODULE Spec2Model ----
(***************************************************************************)
(* Hybrid retrieval engine (Task_2 / task2): the FAISS-backed vector       *)
(* index (FAISSVectorStore), the registry of indexes (MultiIndexManager)   *)
(* and the retriever (HybridRAGSystem.query).                              *)
(*                                                                         *)
(* Abstractions, stated once:                                              *)
(*  - vectors are sequences of small naturals; the squared L2 distance is  *)
(*    then a natural and 1/(1+distance) an exact rational <<num, den>>.    *)
(*    float32 rounding is not modelled.                                    *)
(*  - FLT_MAX, the distance faiss reports in a result slot it could not    *)
(*    fill (label -1), is NoHitDistance: larger than any real distance.    *)
(*  - texts are sequences of one-character strings.                        *)
(***************************************************************************)
EXTENDS Integers, Sequences, FiniteSets, TLC

VARIABLES
    store,      \* the FAISSVectorStore under test (SpecIndex, SpecPersist)
    files,      \* the two artifacts of that store on disk (SpecPersist)
    out,        \* what the last operation on the store returned or raised
    indexes,    \* MultiIndexManager.indexes of the retriever: name -> store
    db,         \* the employees collection of the structured store
    resp,       \* what the last operation of the retriever returned or raised
    order,      \* the names of MultiIndexManager.indexes in insertion order
    disk,       \* the artifacts under base_path: name -> the two files
    handles,    \* employee_index, attendance_index, leave_index of the retriever
    ingest,     \* the position of a load_and_index_data that is under way
    pending     \* the read operations under way, one per caller

vars == <<store, files, out, indexes, db, resp, order, disk, handles, ingest, pending>>

ivars == <<store, files, out>>

\* the operations under way
cvars == <<ingest, pending>>

rvars == <<indexes, db, resp, order, disk, handles, cvars>>

(***************************************************************************)
(* Bounds of the model                                                     *)
(***************************************************************************)
Dim == 1          \* embedding dimension of every index
MaxCoord == 2     \* vector coordinates range over 0..MaxCoord
NDocs == 2        \* well-formed documents of the corpus
MaxLen == 2       \* most vectors one index holds
MaxBatch == 2     \* longest batch handed to add_documents
MaxK == 3         \* largest k handed to search
FilterDocs == 6   \* documents of the catalogue searched with a filter
RegistryLen == 1  \* most vectors one index of the registry holds
MaxExp == 8       \* reported distances range over 2^-MaxExp .. 2^(MaxExp + 4)

(***************************************************************************)
(* Sequences and rationals                                                 *)
(***************************************************************************)
Range(s) == {s[i] : i \in DOMAIN s}

SeqsUpTo(S, n) == UNION {[1..m -> S] : m \in 0..n}

Min2(a, b) == IF a <= b THEN a ELSE b

RECURSIVE GCD(_, _)
GCD(a, b) == IF b = 0 THEN a ELSE GCD(b, a % b)

\* a rational is <<numerator, denominator>> with denominator > 0
Rat(n, d) == LET g == GCD(n, d) IN IF g = 0 THEN <<0, 1>> ELSE <<n \div g, d \div g>>

RatLeq(a, b) == a[1] * b[2] <= b[1] * a[2]

RatLt(a, b) == a[1] * b[2] < b[1] * a[2]

RatAdd(a, b) == Rat(a[1] * b[2] + b[1] * a[2], a[2] * b[2])

RECURSIVE RatSum(_)
RatSum(s) == IF s = <<>> THEN <<0, 1>> ELSE RatAdd(s[1], RatSum(Tail(s)))

\* numpy.mean of a non-empty list
Mean(s) == LET t == RatSum(s) IN Rat(t[1], t[2] * Len(s))

(***************************************************************************)
(* Vectors, documents, queries                                             *)
(***************************************************************************)
Coords == 0..MaxCoord

\* the i-th vector of a deterministic family of Dim-dimensional vectors
VectorOf(i, len) == [j \in 1..len |-> (i + j - 2) % (MaxCoord + 1)]

\* a document as the embedder leaves it: an identifier and its embedding
GoodDocs == {[id |-> i, embedding |-> VectorOf(i, Dim)] : i \in 1..NDocs}

\* a document without the 'embedding' field, and one of the wrong dimension
DocNoEmbedding == [id |-> 0]

DocWrongDim == [id |-> 0, embedding |-> VectorOf(1, Dim + 1)]

Documents == GoodDocs \cup {DocNoEmbedding, DocWrongDim}

Batches == SeqsUpTo(Documents, MaxBatch)

QueryVectors == {VectorOf(i, Dim) : i \in 1..(MaxCoord + 1)}

Ks == 1..MaxK

RECURSIVE SumSq(_, _, _)
SumSq(a, b, j) == IF j = 0 THEN 0 ELSE (a[j] - b[j]) * (a[j] - b[j]) + SumSq(a, b, j - 1)

\* squared Euclidean distance, the metric of IndexFlatL2 and IndexIVFFlat
L2(a, b) == SumSq(a, b, Len(a))

MaxDistance == Dim * MaxCoord * MaxCoord

NoHitDistance == 1000 * (MaxDistance + 1)

NoHitLabel == -1

(***************************************************************************)
(* The faiss index                                                         *)
(***************************************************************************)
\* number of clusters of the IVF index (100 in the source, scaled down so
\* that a batch of the model can train it)
n_list == 2

\* faiss.IndexFlatL2(d) / faiss.IndexIVFFlat(quantizer, d, n_list)
NewFaissIndex(d, kind) ==
    [d |-> d, kind |-> kind, is_trained |-> (kind = "IndexFlatL2"),
     ntotal |-> 0, xb |-> <<>>, centroids |-> <<>>]

\* position (1-based) of the centroid nearest to v, the lowest on a tie
NearestCentroid(centroids, v) ==
    CHOOSE c \in DOMAIN centroids :
        \A e \in DOMAIN centroids :
            \/ L2(centroids[c], v) < L2(centroids[e], v)
            \/ (L2(centroids[c], v) = L2(centroids[e], v) /\ c <= e)

\* the stored positions (0-based labels) a search of q scans
Scanned(index, q) ==
    IF index.kind = "IndexFlatL2"
    THEN {i - 1 : i \in DOMAIN index.xb}
    ELSE IF index.centroids = <<>> THEN {}
    ELSE {i - 1 : i \in {p \in DOMAIN index.xb :
              NearestCentroid(index.centroids, index.xb[p]) =
              NearestCentroid(index.centroids, q)}}

\* the labels of S in storage order, whatever their distance to q
RECURSIVE RankedByLabel(_, _, _)
RankedByLabel(index, q, S) ==
    IF S = {} THEN <<>>
    ELSE LET first == CHOOSE i \in S : \A j \in S : i <= j
         IN <<[label |-> first, distance |-> L2(index.xb[first + 1], q)]>>
            \o RankedByLabel(index, q, S \ {first})

\* the labels of S by increasing distance to q, a tie by increasing label
RECURSIVE Ranked(_, _, _)
Ranked(index, q, S) ==
    IF S = {} THEN <<>>
    ELSE LET best == CHOOSE i \in S : \A j \in S :
                        \/ L2(index.xb[i + 1], q) < L2(index.xb[j + 1], q)
                        \/ (L2(index.xb[i + 1], q) = L2(index.xb[j + 1], q) /\ i <= j)
         IN <<[label |-> best, distance |-> L2(index.xb[best + 1], q)]>>
            \o Ranked(index, q, S \ {best})

\* index.search(q, k): exactly k slots, the unfilled ones (-1, FLT_MAX)
FaissSearch(index, q, k) ==
    LET hits == Ranked(index, q, Scanned(index, q))
    IN [i \in 1..k |-> IF i <= Len(hits) THEN hits[i]
                       ELSE [label |-> NoHitLabel, distance |-> NoHitDistance]]

\* faiss train(x): x is n rows of width w; kmeans is the clustering's outcome
FaissTrain(index, n, w, kmeans) ==
    IF w # index.d \/ (index.kind = "IndexIVFFlat" /\ n < n_list)
    THEN [raised |-> TRUE, index |-> index]
    ELSE [raised |-> FALSE,
          index |-> IF index.is_trained THEN index
                    ELSE [index EXCEPT !.is_trained = TRUE, !.centroids = kmeans]]

\* faiss add(x): appends the rows in order and counts them
FaissAdd(index, rows) ==
    IF (\E i \in DOMAIN rows : Len(rows[i]) # index.d) \/ ~index.is_trained
    THEN [raised |-> TRUE, index |-> index]
    ELSE [raised |-> FALSE,
          index |-> [index EXCEPT !.xb = @ \o rows, !.ntotal = @ + Len(rows)]]

(***************************************************************************)
(* FAISSVectorStore                                                        *)
(***************************************************************************)
FaissKind(index_type) == IF index_type = "flat" THEN "IndexFlatL2" ELSE "IndexIVFFlat"

\* _create_index
CreateIndex(dimension, index_type) == NewFaissIndex(dimension, FaissKind(index_type))

\* __init__
NewStore(dimension, index_type) ==
    [dimension |-> dimension, index_type |-> index_type,
     documents |-> <<>>, index |-> CreateIndex(dimension, index_type)]

HasEmbedding(doc) == "embedding" \in DOMAIN doc

\* numpy.array(embeddings).astype('float32') gives a 2-D array only of rows
\* of one length
Rectangular(rows) == \A i, j \in DOMAIN rows : Len(rows[i]) = Len(rows[j])

\* add_documents that forgets documents.extend(documents)
AddDocumentsNoExtend(s, documents, kmeans) ==
    IF documents = <<>> \/ (\E i \in DOMAIN documents : ~HasEmbedding(documents[i]))
    THEN [raised |-> documents # <<>>, store |-> s]
    ELSE LET embeddings == [i \in DOMAIN documents |-> documents[i].embedding]
             tr == FaissTrain(s.index, Len(embeddings), Len(embeddings[1]), kmeans)
             ad == FaissAdd(tr.index, embeddings)
         IN IF ~Rectangular(embeddings) \/ tr.raised \/ ad.raised
            THEN [raised |-> TRUE, store |-> s]
            ELSE [raised |-> FALSE, store |-> [s EXCEPT !.index = ad.index]]

\* add_documents that inserts document by document and stops at the first
\* one it cannot insert
RECURSIVE AddDocumentsOneByOne(_, _, _)
AddDocumentsOneByOne(s, documents, kmeans) ==
    IF documents = <<>> THEN [raised |-> FALSE, store |-> s]
    ELSE LET doc == documents[1]
         IN IF ~HasEmbedding(doc) \/ Len(doc.embedding) # s.index.d
            THEN [raised |-> TRUE, store |-> s]
            ELSE LET tr == FaissTrain(s.index, n_list, s.index.d, kmeans)
                     ad == FaissAdd(tr.index, <<doc.embedding>>)
                 IN AddDocumentsOneByOne(
                        [s EXCEPT !.index = ad.index, !.documents = Append(@, doc)],
                        Tail(documents), kmeans)

\* add_documents that trains an IVF index at every add
AddDocumentsRetrain(s, documents, kmeans) ==
    IF documents = <<>> THEN [raised |-> FALSE, store |-> s]
    ELSE IF \E i \in DOMAIN documents : ~HasEmbedding(documents[i])
    THEN [raised |-> TRUE, store |-> s]
    ELSE LET embeddings == [i \in DOMAIN documents |-> documents[i].embedding]
             trained == IF s.index_type = "ivf"
                        THEN [s.index EXCEPT !.is_trained = TRUE, !.centroids = kmeans]
                        ELSE s.index
             ad == FaissAdd(trained, embeddings)
         IN IF ~Rectangular(embeddings) \/ ad.raised THEN [raised |-> TRUE, store |-> s]
            ELSE [raised |-> FALSE,
                  store |-> [s EXCEPT !.index = ad.index, !.documents = @ \o documents]]

\* add_documents(documents); kmeans is what training would produce
AddDocuments(s, documents, kmeans) ==
    IF documents = <<>> THEN [raised |-> FALSE, store |-> s]
    ELSE IF \E i \in DOMAIN documents : ~HasEmbedding(documents[i])
    THEN [raised |-> TRUE, store |-> s]
    ELSE LET embeddings == [i \in DOMAIN documents |-> documents[i].embedding]
         IN IF ~Rectangular(embeddings) THEN [raised |-> TRUE, store |-> s]
            ELSE LET needs == s.index_type = "ivf" /\ ~s.index.is_trained
                     tr == IF needs
                           THEN FaissTrain(s.index, Len(embeddings), Len(embeddings[1]), kmeans)
                           ELSE [raised |-> FALSE, index |-> s.index]
                     ad == FaissAdd(tr.index, embeddings)
                 IN IF tr.raised THEN [raised |-> TRUE, store |-> s]
                    ELSE IF ad.raised
                    THEN [raised |-> TRUE, store |-> [s EXCEPT !.index = tr.index]]
                    ELSE [raised |-> FALSE,
                          store |-> [s EXCEPT !.index = ad.index,
                                              !.documents = @ \o documents]]

\* a clear that empties the document list and keeps the vectors
ClearDocumentsOnly(s) == [s EXCEPT !.documents = <<>>]

\* clear / reset
Clear(s) == [s EXCEPT !.documents = <<>>, !.index = CreateIndex(s.dimension, s.index_type)]

\* get_stats
GetStats(s) ==
    [total_vectors |-> s.index.ntotal, dimension |-> s.dimension,
     index_type |-> s.index_type, is_trained |-> s.index.is_trained,
     total_documents |-> Len(s.documents)]

\* similarity = 1 / (1 + dist)
Similarity(dist) == Rat(1, 1 + dist)

\* Python's list[i] for an int i: a negative i counts from the end
PyInRange(seq, i) == -Len(seq) <= i /\ i < Len(seq)

PyItem(seq, i) == IF i >= 0 THEN seq[i + 1] ELSE seq[Len(seq) + i + 1]

\* the loop of search over the k slots faiss returned
RECURSIVE Collect(_, _)
Collect(documents, slots) ==
    IF slots = <<>> THEN <<>>
    ELSE LET idx == slots[1].label
             rest == Collect(documents, Tail(slots))
         IN IF idx < Len(documents)
            THEN <<[doc |-> PyItem(documents, idx),
                    similarity |-> Similarity(slots[1].distance),
                    label |-> idx]>> \o rest
            ELSE rest

\* a search without the early return on an empty index
SearchUnguarded(s, q, k) ==
    LET slots == FaissSearch(s.index, q, k)
    IN IF \E i \in DOMAIN slots :
              slots[i].label < Len(s.documents) /\ ~PyInRange(s.documents, slots[i].label)
       THEN [raised |-> TRUE, value |-> <<>>]
       ELSE [raised |-> FALSE, value |-> Collect(s.documents, slots)]

\* search(query_embedding, k): the list of (document, similarity); `label`
\* records the slot's label beside each pair and is no part of the result
Search(s, q, k) ==
    IF s.index.ntotal = 0 THEN [raised |-> FALSE, value |-> <<>>]
    ELSE LET slots == FaissSearch(s.index, q, k)
         IN IF \E i \in DOMAIN slots :
                   slots[i].label < Len(s.documents) /\ ~PyInRange(s.documents, slots[i].label)
            THEN [raised |-> TRUE, value |-> <<>>]
            ELSE [raised |-> FALSE, value |-> Collect(s.documents, slots)]

Pairs(results) == [i \in DOMAIN results |-> <<results[i].doc, results[i].similarity>>]

\* results[:n]
Prefix(results, n) == [i \in 1..Min2(n, Len(results)) |-> results[i]]

\* filter_func of search_with_filter: None, or a predicate on the document
\* (here: the document's id lies in a set)
NoFilter == [none |-> TRUE]

FilterFuncs ==
    {NoFilter} \cup {[ids |-> S] : S \in {{}, {1}, {FilterDocs},
                                          {i \in 1..FilterDocs : i % 2 = 1}}}

FilterCall(filter_func, doc) == doc.id \in filter_func.ids

\* [(doc, sim) for doc, sim in results if filter_func(doc)]
RECURSIVE Filtered(_, _)
Filtered(results, filter_func) ==
    IF results = <<>> THEN <<>>
    ELSE IF FilterCall(filter_func, results[1].doc)
    THEN <<results[1]>> \o Filtered(Tail(results), filter_func)
    ELSE Filtered(Tail(results), filter_func)

\* a filtered search that cuts the candidates to k before filtering
SearchWithFilterTruncateFirst(s, q, k, filter_func) ==
    LET r == Search(s, q, Min2(k * 5, s.index.ntotal))
    IN IF r.raised THEN r
       ELSE [raised |-> FALSE,
             value |-> IF filter_func = NoFilter THEN Prefix(r.value, k)
                       ELSE Filtered(Prefix(r.value, k), filter_func)]

\* search_with_filter(query_embedding, k, filter_func)
SearchWithFilter(s, q, k, filter_func) ==
    LET initial_k == Min2(k * 5, s.index.ntotal)
        r == Search(s, q, initial_k)
    IN IF r.raised THEN r
       ELSE [raised |-> FALSE,
             value |-> Prefix(IF filter_func = NoFilter THEN r.value
                              ELSE Filtered(r.value, filter_func), k)]

(***************************************************************************)
(* Persistence of one store: two artifacts on disk                         *)
(***************************************************************************)
NoFile == [state |-> "missing"]

Corrupt == [state |-> "corrupt"]

\* faiss.write_index: the serialized index structure
WriteIndex(index) ==
    [state |-> "faiss", fourcc |-> index.kind,
     header |-> <<index.d, index.ntotal, index.is_trained>>,
     codes |-> index.xb, quantizer |-> index.centroids]

\* faiss.read_index of a well-formed blob
ReadIndex(blob) ==
    [d |-> blob.header[1], kind |-> blob.fourcc, is_trained |-> blob.header[3],
     ntotal |-> blob.header[2], xb |-> blob.codes, centroids |-> blob.quantizer]

\* pickle.dump / pickle.load of the document list
PickleDump(documents) == [state |-> "pickle", n |-> Len(documents), items |-> documents]

PickleLoad(blob) == [i \in 1..blob.n |-> blob.items[i]]

\* where a save can fail: nowhere, in os.makedirs, in faiss.write_index (the
\* file is left truncated), in open(documents_path) or in pickle.dump (the
\* file is left truncated)
SaveFaults == {"none", "makedirs", "write_index", "open_docs", "pickle_dump"}

\* save(index_path, documents_path) on the pair of files f
Save(s, f, fault) ==
    IF fault = "makedirs" THEN [raised |-> TRUE, files |-> f]
    ELSE IF fault = "write_index"
    THEN [raised |-> TRUE, files |-> [f EXCEPT !.index = Corrupt]]
    ELSE LET f1 == [f EXCEPT !.index = WriteIndex(s.index)]
         IN IF fault = "open_docs" THEN [raised |-> TRUE, files |-> f1]
            ELSE IF fault = "pickle_dump"
            THEN [raised |-> TRUE, files |-> [f1 EXCEPT !.docs = Corrupt]]
            ELSE [raised |-> FALSE, files |-> [f1 EXCEPT !.docs = PickleDump(s.documents)]]

\* load that restores the index and forgets the document list
LoadIndexOnly(s, f) ==
    IF f.index.state # "faiss" \/ f.docs.state # "pickle"
    THEN [raised |-> TRUE, store |-> s]
    ELSE [raised |-> FALSE, store |-> [s EXCEPT !.index = ReadIndex(f.index)]]

\* load(index_path, documents_path) from the pair of files f
Load(s, f) ==
    IF f.index.state # "faiss" THEN [raised |-> TRUE, store |-> s]
    ELSE LET s1 == [s EXCEPT !.index = ReadIndex(f.index)]
         IN IF f.docs.state # "pickle" THEN [raised |-> TRUE, store |-> s1]
            ELSE [raised |-> FALSE, store |-> [s1 EXCEPT !.documents = PickleLoad(f.docs)]]

(***************************************************************************)
(* Handles and operations under way                                        *)
(***************************************************************************)
\* a handle of the retriever (employee_index, ...) that is the object the
\* registry holds under the category's name
Shared == [shared |-> TRUE]

\* a handle that is an object the registry no longer holds, with its state
Detached(s) == [shared |-> FALSE, store |-> s]

\* no load_and_index_data is under way
Idle == [pc |-> "idle"]

(***************************************************************************)
(* SpecIndex: one FAISSVectorStore and its two files                       *)
(***************************************************************************)
IndexTypes == {"flat", "ivf"}

\* what k-means may return when add_documents trains on this batch
KMeansOutcomes(s, documents) ==
    IF /\ s.index_type = "ivf" /\ ~s.index.is_trained
       /\ \A i \in DOMAIN documents : HasEmbedding(documents[i]) /\ Len(documents[i].embedding) = s.index.d
       /\ Len(documents) >= n_list
    THEN [1..n_list -> {documents[i].embedding : i \in DOMAIN documents}]
    ELSE {<<>>}

InitIndex ==
    /\ store \in {NewStore(Dim, t) : t \in IndexTypes}
    /\ files = [index |-> NoFile, docs |-> NoFile]
    /\ out = [op |-> "init", raised |-> FALSE]
    /\ indexes = <<>>
    /\ db = <<>>
    /\ resp = [op |-> "init", raised |-> FALSE]
    /\ order = <<>>
    /\ disk = <<>>
    /\ handles = <<>>
    /\ ingest = Idle
    /\ pending = <<>>

DoAdd ==
    \E documents \in Batches :
        \E kmeans \in KMeansOutcomes(store, documents) :
            LET r == AddDocuments(store, documents, kmeans)
            IN /\ Len(r.store.documents) <= MaxLen
               /\ r.store.index.ntotal <= MaxLen
               /\ store' = r.store
               /\ out' = [op |-> "add", raised |-> r.raised, arg |-> documents]
               /\ UNCHANGED <<files, rvars>>

DoClear ==
    /\ store' = Clear(store)
    /\ out' = [op |-> "clear", raised |-> FALSE, discarded |-> store.index.ntotal]
    /\ UNCHANGED <<files, rvars>>

DoSearch ==
    \E q \in QueryVectors, k \in Ks :
        LET r == Search(store, q, k)
        IN /\ out' = [op |-> "search", raised |-> r.raised, q |-> q, k |-> k,
                      value |-> r.value]
           /\ UNCHANGED <<store, files, rvars>>

DoGetStats ==
    /\ out' = [op |-> "get_stats", raised |-> FALSE, value |-> GetStats(store)]
    /\ UNCHANGED <<store, files, rvars>>

NextIndex == DoAdd \/ DoClear \/ DoSearch \/ DoGetStats

SpecIndex == InitIndex /\ [][NextIndex]_vars

(***************************************************************************)
(* Texts: a text is the sequence of its whitespace-separated words, a word *)
(* a sequence of one-character strings                                     *)
(***************************************************************************)
Digits == {"0", "1", "2", "3", "4", "5", "6", "7", "8", "9"}

UpperOf == [e |-> "E", m |-> "M", p |-> "P", l |-> "L", o |-> "O", y |-> "Y",
            a |-> "A", i |-> "I", c |-> "C", b |-> "B", w |-> "W", h |-> "H"]

LowerOf == [E |-> "e", M |-> "m", P |-> "p", L |-> "l", O |-> "o", Y |-> "y",
            A |-> "a", I |-> "i", C |-> "c", B |-> "b", W |-> "w", H |-> "h"]

\* str.lower / str.upper on one character
LowerChar(c) == IF c \in DOMAIN LowerOf THEN LowerOf[c] ELSE c

UpperChar(c) == IF c \in DOMAIN UpperOf THEN UpperOf[c] ELSE c

LowerWord(w) == [i \in DOMAIN w |-> LowerChar(w[i])]

UpperWord(w) == [i \in DOMAIN w |-> UpperChar(w[i])]

LowerText(t) == [i \in DOMAIN t |-> LowerWord(t[i])]

\* w[a..b]
Slice(w, a, b) == [i \in 1..(b - a + 1) |-> w[a + i - 1]]

\* needle occurs in w at position i
OccursAt(w, needle, i) ==
    /\ i >= 1 /\ i + Len(needle) - 1 <= Len(w)
    /\ \A j \in DOMAIN needle : w[i + j - 1] = needle[j]

\* `needle in w` for strings
Contains(w, needle) == \E i \in 1..(Len(w) + 1) : OccursAt(w, needle, i)

\* the end of the longest run of digits of w that starts at position i
RECURSIVE DigitsEnd(_, _)
DigitsEnd(w, i) == IF i <= Len(w) /\ w[i] \in Digits THEN DigitsEnd(w, i + 1) ELSE i - 1

EMP == <<"e", "m", "p">>

\* positions of w where emp\d+ matches
EmpMatches(w) == {i \in DOMAIN w : OccursAt(w, EMP, i) /\ DigitsEnd(w, i + 3) >= i + 3}

\* re.search(r"emp\d+", w).group(0) in one word, <<>> for no match
EmpInWord(w) ==
    IF EmpMatches(w) = {} THEN <<>>
    ELSE LET i == CHOOSE a \in EmpMatches(w) : \A b \in EmpMatches(w) : a <= b
         IN Slice(w, i, DigitsEnd(w, i + 3))

\* re.search(r"emp\d+", text).group(0): the leftmost match of the text (a
\* match holds no whitespace, so it lies in one word), <<>> for no match
RECURSIVE RegexSearchEmp(_)
RegexSearchEmp(t) ==
    IF t = <<>> THEN <<>>
    ELSE IF EmpInWord(t[1]) # <<>> THEN EmpInWord(t[1])
    ELSE RegexSearchEmp(Tail(t))

(***************************************************************************)
(* The structured store (MongoDBHandler on the employees collection)       *)
(***************************************************************************)
None == [none |-> TRUE]

\* find_one(employees, {"emp_id": emp_id})
FindOne(collection, emp_id) ==
    IF \E i \in DOMAIN collection : collection[i].emp_id = emp_id
    THEN collection[CHOOSE i \in DOMAIN collection :
                        /\ collection[i].emp_id = emp_id
                        /\ \A j \in DOMAIN collection :
                               collection[j].emp_id = emp_id => i <= j]
    ELSE None

RECURSIVE SelectSeq2(_, _)
SelectSeq2(seq, keep) ==
    IF seq = <<>> THEN <<>>
    ELSE IF keep[1] THEN <<seq[1]>> \o SelectSeq2(Tail(seq), Tail(keep))
    ELSE SelectSeq2(Tail(seq), Tail(keep))

Take(seq, n) == [i \in 1..Min2(n, Len(seq)) |-> seq[i]]

\* find_documents(employees, {"name": {"$regex": name, "$options": "i"}}, limit)
\* for a name without regex metacharacters
FindByName(collection, name, limit) ==
    Take(SelectSeq2(collection,
                    [i \in DOMAIN collection |->
                        Contains(LowerWord(collection[i].name), LowerWord(name))]),
         limit)

(***************************************************************************)
(* The retriever: HybridRAGSystem                                          *)
(***************************************************************************)
\* config.TOP_K_RESULTS
TOP_K_RESULTS == 5

\* config.SIMILARITY_THRESHOLD = 0.3
SIMILARITY_THRESHOLD == Rat(3, 10)

\* the confidence of a structured answer: 0.9 (Task_2), 0.8 (task2)
StructuredConfidence(variant) == IF variant = "Task_2" THEN Rat(9, 10) ELSE Rat(8, 10)

\* the order in which query_semantic walks the indexes
Categories == <<"employees", "attendance", "leave">>

CategoryNo(c) == CHOOSE i \in DOMAIN Categories : Categories[i] = c

\* the i-th record of category c after embedding
CategoryDoc(c, i) ==
    [cat |-> c, id |-> i, embedding |-> VectorOf(CategoryNo(c) + i - 1, Dim)]

CategoryDocs(c, n) == [i \in 1..n |-> CategoryDoc(c, i)]

DigitChar(i) == <<"0", "1", "2", "3", "4", "5", "6", "7", "8", "9">>[i + 1]

Names == <<<<"A", "l", "i", "c", "e">>, <<"B", "o", "b">>>>

\* the i-th employee record as the loader hands it to the structured store
EmployeeRecord(i) ==
    [emp_id |-> <<"E", "M", "P", DigitChar(i % 10)>>,
     name |-> Names[((i - 1) % Len(Names)) + 1]]

EmployeeRecords(n) == [i \in 1..n |-> EmployeeRecord(i)]

\* the queries put to the retriever
QueryTexts ==
    << <<<<"E", "m", "p", "l", "o", "y", "e", "e">>, <<"e", "m", "p", "1">>>>,
       <<<<"w", "h", "o">>>>,
       <<<<"e", "m", "p", "9">>, <<"E", "M", "P", "1">>>>,
       <<<<"e", "m", "p", "l", "o", "y", "e", "e">>, <<"A", "l", "i", "c", "e">>>> >>

\* EmbeddingGenerator.generate_embedding: a fixed vector for each text
EmbedText(text) ==
    VectorOf(CHOOSE i \in DOMAIN QueryTexts : QueryTexts[i] = text, Dim)

\* a sort that forgets reverse=True
SortBySimilarityAsc(unsorted) ==
    CHOOSE sorted \in
        {[p \in DOMAIN results |-> results[CHOOSE i \in DOMAIN results : rank[i] = p]]
         : results \in {unsorted},
           rank \in {[i \in DOMAIN unsorted |->
                       1 + Cardinality({j \in DOMAIN unsorted :
                             \/ RatLt(unsorted[j].similarity, unsorted[i].similarity)
                             \/ (unsorted[j].similarity = unsorted[i].similarity
                                 /\ j < i)})]}} : TRUE

\* list.sort(key=similarity, reverse=True) is stable: equal similarities
\* keep their order. rank[i] is the place of unsorted[i] in the sorted list
\* (results and rank are bound by \in: they are evaluated once)
SortBySimilarityDesc(unsorted) ==
    CHOOSE sorted \in
        {[p \in DOMAIN results |-> results[CHOOSE i \in DOMAIN results : rank[i] = p]]
         : results \in {unsorted},
           rank \in {[i \in DOMAIN unsorted |->
                       1 + Cardinality({j \in DOMAIN unsorted :
                             \/ RatLt(unsorted[i].similarity, unsorted[j].similarity)
                             \/ (unsorted[j].similarity = unsorted[i].similarity
                                 /\ j < i)})]}} : TRUE

\* the concatenation of the lists per[1], ..., per[n]
RECURSIVE Concat(_, _)
Concat(per, n) == IF n = 0 THEN <<>> ELSE Concat(per, n - 1) \o per[n].value

\* results = [] ... results.extend(idx.search(query_vector, k)) started anew
\* at every category
ExtendReplace(results, found) == found

\* results.extend(idx.search(query_vector, k))
Extend(results, found) == results \o found

\* the loop of query_semantic over the three indexes: get_index and search
\* for each name in turn, stopping at the first that raises (an index that
\* is not registered, or a search that raises); `searched` lists the indexes
\* whose search was called. (per is bound by \in: it is evaluated once.)
SearchCategories(ix, qv, k) ==
    CHOOSE result \in
        {LET failed == {n \in DOMAIN per : per[n].raised}
             reached == {n \in DOMAIN per : \A m \in failed : n <= m}
         IN [raised |-> failed # {},
             value |-> IF failed # {} THEN <<>> ELSE Concat(per, Len(per)),
             searched |-> [n \in 1..Cardinality({m \in reached :
                                                   Categories[m] \in DOMAIN ix})
                              |-> Categories[n]]]
         : per \in {[n \in DOMAIN Categories |->
                       IF Categories[n] \notin DOMAIN ix
                       THEN [raised |-> TRUE, value |-> <<>>]
                       ELSE Search(ix[Categories[n]], qv, k)]}} : TRUE

\* query_semantic(query_text, index_name, k)
QuerySemantic(ix, text, index_name, k, fault) ==
    IF fault = "embed"
    THEN [raised |-> TRUE, value |-> <<>>, embed |-> 1, searched |-> <<>>]
    ELSE IF index_name = "all"
    THEN LET r == SearchCategories(ix, EmbedText(text), k)
         IN [raised |-> r.raised,
             value |-> IF r.raised THEN <<>>
                       ELSE Take(SortBySimilarityDesc(r.value), k),
             embed |-> 1, searched |-> r.searched]
    ELSE IF index_name \notin DOMAIN ix
    THEN [raised |-> TRUE, value |-> <<>>, embed |-> 1, searched |-> <<>>]
    ELSE LET r == Search(ix[index_name], EmbedText(text), k)
         IN [raised |-> r.raised, value |-> r.value, embed |-> 1,
             searched |-> <<index_name>>]

\* a filter that keeps what lies below the threshold
ThresholdBelow(results, t) ==
    SelectSeq2(results, [i \in DOMAIN results |-> RatLt(results[i].similarity, t)])

\* [(doc, sim) for doc, sim in results if sim >= threshold]
RECURSIVE Threshold(_, _)
Threshold(results, t) ==
    IF results = <<>> THEN <<>>
    ELSE IF RatLeq(t, results[1].similarity)
    THEN <<results[1]>> \o Threshold(Tail(results), t)
    ELSE Threshold(Tail(results), t)

Docs(results) == [i \in DOMAIN results |-> results[i].doc]

Similarities(results) == [i \in DOMAIN results |-> results[i].similarity]

\* _try_structured_query of Task_2: <<>> stands for None
TryStructuredQuery(collection, text) ==
    LET match == RegexSearchEmp(LowerText(text))
    IN IF match # <<>>
       THEN LET doc == FindOne(collection, UpperWord(match))
            IN IF doc # None THEN <<doc>> ELSE <<>>
       ELSE <<>>

Markers == {<<"e", "m", "p", "l", "o", "y", "e", "e">>, <<"p", "e", "r", "s", "o", "n">>,
            <<"n", "a", "m", "e", "d">>}

\* the loop over the words of task2's _try_structured_query: the first
\* marker word that has a successor decides
RECURSIVE NameLookup(_, _, _)
NameLookup(collection, words, i) ==
    IF i > Len(words) THEN <<>>
    ELSE IF LowerWord(words[i]) \in Markers /\ i + 1 <= Len(words)
    THEN FindByName(collection, words[i + 1], 5)
    ELSE NameLookup(collection, words, i + 1)

\* _try_structured_query of task2
TryStructuredQueryT2(collection, text) ==
    LET lower == LowerText(text)
        match == RegexSearchEmp(lower)
        hasEmp == \E i \in DOMAIN lower : Contains(lower[i], EMP)
        hasMarker == \E i \in DOMAIN lower :
                        \/ Contains(lower[i], <<"e", "m", "p", "l", "o", "y", "e", "e">>)
                        \/ Contains(lower[i], <<"p", "e", "r", "s", "o", "n">>)
    IN IF hasEmp /\ match # <<>>
       THEN LET doc == FindOne(collection, UpperWord(match))
            IN IF doc # None THEN <<doc>> ELSE <<>>
       ELSE IF hasMarker THEN NameLookup(collection, text, 1)
       ELSE <<>>

\* a language model whose call never fails
LlmNeverRaises(variant, fault) == FALSE

\* llm.generate_response: the stub of Task_2 always answers, the Groq call
\* of task2 may raise
LlmRaises(variant, fault) == variant = "task2" /\ fault = "llm"

ConfidenceLevel(c) ==
    IF RatLt(Rat(7, 10), c) THEN "high" ELSE IF RatLt(Rat(5, 10), c) THEN "medium" ELSE "low"

\* ResponseFormatter.format_response
FormatResponse(variant, docs, confidence) ==
    IF variant = "Task_2"
    THEN [answer |-> "generated", sources |-> docs, source_count |-> Len(docs),
          confidence |-> confidence]
    ELSE [answer |-> "generated", confidence |-> confidence, sources |-> docs,
          source_count |-> Len(docs),
          metadata |-> [has_sources |-> Len(docs) > 0,
                        confidence_level |-> ConfidenceLevel(confidence)]]

Stamp(response, search_method) ==
    [f \in DOMAIN response \cup {"search_method"} |->
        IF f = "search_method" THEN search_method ELSE response[f]]

\* a "no relevant information" response tagged "none"
NothingFoundTagNone(variant, search_method) ==
    [answer |-> "nothing found", confidence |-> Rat(0, 1), sources |-> <<>>,
     search_method |-> "none"]

\* the "no relevant information" response
NothingFound(variant, search_method) ==
    IF variant = "Task_2"
    THEN [answer |-> "nothing found", confidence |-> Rat(0, 1), sources |-> <<>>,
          search_method |-> search_method]
    ELSE [answer |-> "nothing found", confidence |-> Rat(0, 1), sources |-> <<>>,
          source_count |-> 0, search_method |-> search_method,
          metadata |-> [has_sources |-> FALSE, confidence_level |-> "none"]]

\* a confidence that reports the best similarity instead of the mean
ConfidenceBest(variant, structured, kept) ==
    IF structured # <<>> THEN StructuredConfidence(variant) ELSE kept[1].similarity

\* the confidence of a response with sources: results[0] is a tuple on the
\* semantic path and a record on the structured path
Confidence(variant, structured, kept) ==
    IF structured # <<>> THEN StructuredConfidence(variant)
    ELSE Mean(Similarities(kept))

\* query(query_text, use_structured) of Task_2/rag_system.py and of
\* task2/rag_system.py; structured is what _try_structured_query returned,
\* sem what query_semantic returned (nothing on the structured path) and
\* kept what the threshold left of it (both bound by \in: evaluated once)
QueryWith(variant, ix, structured, text, fault) ==
    CHOOSE result \in
        {CHOOSE r \in
            {LET viaStructured == structured # <<>>
                 search_method == IF viaStructured THEN "structured" ELSE "semantic"
                 docs == IF viaStructured THEN structured ELSE Docs(kept)
                 confidence == Confidence(variant, structured, kept)
                 calls == [embed |-> sem.embed, searched |-> sem.searched, llm |-> 0]
             IN IF sem.raised
                THEN [raised |-> TRUE, response |-> None, calls |-> calls,
                      semantic |-> <<>>, kept |-> <<>>]
                ELSE IF docs = <<>>
                THEN [raised |-> FALSE,
                      response |-> NothingFound(variant, search_method),
                      calls |-> calls, semantic |-> sem.value, kept |-> kept]
                ELSE IF LlmRaises(variant, fault)
                THEN [raised |-> TRUE, response |-> None,
                      calls |-> [calls EXCEPT !.llm = 1],
                      semantic |-> sem.value, kept |-> kept]
                ELSE [raised |-> FALSE,
                      response |-> Stamp(FormatResponse(variant, docs, confidence),
                                         search_method),
                      calls |-> [calls EXCEPT !.llm = 1],
                      semantic |-> sem.value, kept |-> kept]
             : kept \in {Threshold(sem.value, SIMILARITY_THRESHOLD)}} : TRUE
         : sem \in {IF structured # <<>>
                    THEN [raised |-> FALSE, value |-> <<>>, embed |-> 0,
                          searched |-> <<>>]
                    ELSE QuerySemantic(ix, text, "all", TOP_K_RESULTS, fault)}} : TRUE

\* HybridRAGSystem.query of Task_2
Query(ix, collection, text, use_structured, fault) ==
    QueryWith("Task_2", ix,
              IF use_structured THEN TryStructuredQuery(collection, text) ELSE <<>>,
              text, fault)

\* HybridRAGSystem.query of task2
QueryT2(ix, collection, text, use_structured, fault) ==
    QueryWith("task2", ix,
              IF use_structured THEN TryStructuredQueryT2(collection, text) ELSE <<>>,
              text, fault)

\* where load_and_index_data can fail: nowhere, while loading the files, or
\* in the embedding of one category
IngestFaults == {"none", "load", "embed_employees", "embed_attendance", "embed_leave"}

\* attendance[:10000]: the most attendance records that are embedded
\* (10000 in the source, scaled down)
AttendanceSample == 2

\* load_and_index_data of task2/rag_system.py, which adds to the three
\* indexes without clearing them
LoadAndIndexDataT2(ix, collection, ne, na, nl, fault) ==
    IF fault = "load" THEN [raised |-> TRUE, indexes |-> ix, db |-> collection]
    ELSE LET db1 == EmployeeRecords(ne)
             e == AddDocuments(ix["employees"], CategoryDocs("employees", ne), <<>>)
             ix1 == [ix EXCEPT !["employees"] = e.store]
             a == AddDocuments(ix1["attendance"],
                               CategoryDocs("attendance", Min2(na, AttendanceSample)), <<>>)
             ix2 == [ix1 EXCEPT !["attendance"] = a.store]
             l == AddDocuments(ix2["leave"], CategoryDocs("leave", nl), <<>>)
             ix3 == [ix2 EXCEPT !["leave"] = l.store]
         IN IF fault = "embed_employees" \/ e.raised
            THEN [raised |-> TRUE, indexes |-> IF fault = "embed_employees" THEN ix ELSE ix1,
                  db |-> db1]
            ELSE IF fault = "embed_attendance" \/ a.raised
            THEN [raised |-> TRUE, indexes |-> IF fault = "embed_attendance" THEN ix1 ELSE ix2,
                  db |-> db1]
            ELSE IF fault = "embed_leave" \/ l.raised
            THEN [raised |-> TRUE, indexes |-> IF fault = "embed_leave" THEN ix2 ELSE ix3,
                  db |-> db1]
            ELSE [raised |-> FALSE, indexes |-> ix3, db |-> db1]

\* load_and_index_data of Task_2 on ne employees, na attendance and nl leave
\* records; ix holds the stores of the three handles
LoadAndIndexData(ix, collection, ne, na, nl, fault) ==
    IF fault = "load" THEN [raised |-> TRUE, indexes |-> ix, db |-> collection]
    ELSE LET db1 == EmployeeRecords(ne)
             ix0 == [c \in DOMAIN ix |-> Clear(ix[c])]
             e == AddDocuments(ix0["employees"], CategoryDocs("employees", ne), <<>>)
             ix1 == [ix0 EXCEPT !["employees"] = e.store]
             a == AddDocuments(ix1["attendance"],
                               CategoryDocs("attendance", Min2(na, AttendanceSample)), <<>>)
             ix2 == [ix1 EXCEPT !["attendance"] = a.store]
             l == AddDocuments(ix2["leave"], CategoryDocs("leave", nl), <<>>)
             ix3 == [ix2 EXCEPT !["leave"] = l.store]
         IN IF fault = "embed_employees" \/ e.raised
            THEN [raised |-> TRUE, indexes |-> IF fault = "embed_employees" THEN ix0 ELSE ix1,
                  db |-> db1]
            ELSE IF fault = "embed_attendance" \/ a.raised
            THEN [raised |-> TRUE, indexes |-> IF fault = "embed_attendance" THEN ix1 ELSE ix2,
                  db |-> db1]
            ELSE IF fault = "embed_leave" \/ l.raised
            THEN [raised |-> TRUE, indexes |-> IF fault = "embed_leave" THEN ix2 ELSE ix3,
                  db |-> db1]
            ELSE [raised |-> FALSE, indexes |-> ix3, db |-> db1]

\* the stores of the three handles: a shared handle is the registry's object
HandleStores(ix, h) ==
    [c \in Range(Categories) |-> IF h[c].shared THEN ix[c] ELSE h[c].store]

\* the registry after the objects of the handles have become `stores`
PutShared(ix, h, stores) ==
    [n \in DOMAIN ix |-> IF n \in DOMAIN h /\ h[n].shared THEN stores[n] ELSE ix[n]]

\* the handles after their objects have become `stores`
PutDetached(h, stores) ==
    [c \in DOMAIN h |-> IF h[c].shared THEN h[c] ELSE Detached(stores[c])]

(***************************************************************************)
(* MultiIndexManager: the registry of named indexes                        *)
(***************************************************************************)
\* the names an index is registered under
RegNames == Range(Categories) \cup {"policies"}

\* a create_index that keeps the index a name already has
ManagerCreateIndexKeep(ix, ord, name, index_type) ==
    [indexes |-> [n \in DOMAIN ix \cup {name} |->
                     IF n \in DOMAIN ix THEN ix[n] ELSE NewStore(Dim, index_type)],
     order |-> IF name \in Range(ord) THEN ord ELSE Append(ord, name)]

\* create_index(name, index_type): self.indexes[name] = FAISSVectorStore(...);
\* a dict keeps the place of a key that is assigned again
ManagerCreateIndex(ix, ord, name, index_type) ==
    [indexes |-> [n \in DOMAIN ix \cup {name} |->
                     IF n = name THEN NewStore(Dim, index_type) ELSE ix[n]],
     order |-> IF name \in Range(ord) THEN ord ELSE Append(ord, name)]

\* get_index(name)
GetIndex(ix, name) ==
    IF name \notin DOMAIN ix THEN [raised |-> TRUE, value |-> None]
    ELSE [raised |-> FALSE, value |-> ix[name]]

\* a search_all that leaves out the names whose index found nothing
SearchAllSkipEmpty(ix, ord, q, k) ==
    [raised |-> \E n \in DOMAIN ord : Search(ix[ord[n]], q, k).raised,
     value |-> [name \in {m \in Range(ord) : Search(ix[m], q, k).value # <<>>} |->
                   Search(ix[name], q, k).value]]

\* search_all(query_embedding, k): name -> that index's search
SearchAll(ix, ord, q, k) ==
    IF \E n \in DOMAIN ord : Search(ix[ord[n]], q, k).raised
    THEN [raised |-> TRUE, value |-> <<>>]
    ELSE [raised |-> FALSE,
          value |-> [name \in Range(ord) |-> Search(ix[name], q, k).value]]

\* the i-th document added to the index registered as name
RegistryDoc(name, i) ==
    [cat |-> name, id |-> i,
     embedding |-> VectorOf((IF name \in Range(Categories) THEN CategoryNo(name)
                             ELSE Len(Categories) + 1) + i - 1, Dim)]

\* no artifact of a name under base_path
NoArtifacts == [index |-> NoFile, docs |-> NoFile]

\* os.path.exists of an artifact
Exists(file) == file.state # "missing"

\* save_all(base_path): save of every index in the registry's order; the
\* save of the index at place failAt raises with the given fault (failAt = 0:
\* none does) and ends the loop
RECURSIVE SaveAll(_, _, _, _, _, _)
SaveAll(ix, ord, dsk, failAt, fault, n) ==
    IF n > Len(ord) THEN [raised |-> FALSE, disk |-> dsk]
    ELSE LET name == ord[n]
             r == Save(ix[name], dsk[name], IF n = failAt THEN fault ELSE "none")
             dsk1 == [dsk EXCEPT ![name] = r.files]
         IN IF r.raised THEN [raised |-> TRUE, disk |-> dsk1]
            ELSE SaveAll(ix, ord, dsk1, failAt, fault, n + 1)

\* the store load_all builds before loading a category into it
FreshStore == NewStore(Dim, "flat")

\* load_all(base_path, index_names): a name with both files is loaded into
\* a new store that then replaces the registered one; a name without one
\* of them is passed over; a load that raises ends load_all. `reported` is
\* the set of names whose failure was logged or raised, `loaded` the set of
\* names whose store was replaced by the one read from disk.
RECURSIVE LoadAll(_, _, _, _, _)
LoadAll(ix, ord, dsk, index_names, n) ==
    IF n > Len(index_names)
    THEN [raised |-> FALSE, indexes |-> ix, order |-> ord, reported |-> {}, loaded |-> {}]
    ELSE LET name == index_names[n]
             l == Load(FreshStore, dsk[name])
         IN IF ~(Exists(dsk[name].index) /\ Exists(dsk[name].docs))
            THEN LoadAll(ix, ord, dsk, index_names, n + 1)
            ELSE IF l.raised
            THEN [raised |-> TRUE, indexes |-> ix, order |-> ord,
                  reported |-> {name}, loaded |-> {}]
            ELSE [LoadAll([m \in DOMAIN ix \cup {name} |->
                              IF m = name THEN l.store ELSE ix[m]],
                          IF name \in Range(ord) THEN ord ELSE Append(ord, name),
                          dsk, index_names, n + 1)
                  EXCEPT !.loaded = @ \cup {name}]

(***************************************************************************)
(* Spec: the retriever with its three flat indexes and the employee store  *)
(***************************************************************************)
QueryFaults == {"none", "embed", "llm"}

Init ==
    /\ store = NewStore(Dim, "flat")
    /\ files = [index |-> NoFile, docs |-> NoFile]
    /\ out = [op |-> "init", raised |-> FALSE]
    /\ indexes = [c \in Range(Categories) |-> NewStore(Dim, "flat")]
    /\ db \in {EmployeeRecords(n) : n \in 0..MaxLen}
    /\ resp = [op |-> "init", raised |-> FALSE]
    /\ order = Categories
    /\ disk = [n \in RegNames |-> NoArtifacts]
    /\ handles = [c \in Range(Categories) |-> Shared]
    /\ ingest = Idle
    /\ pending = <<>>

\* what load_and_index_data leaves to its caller: the exception, or the
\* summary of the run that _print_summary prints at its end
IngestOutcome(variant, ne, na, nl, raised) ==
    IF raised THEN [op |-> "load_and_index_data", variant |-> variant, raised |-> TRUE]
    ELSE [op |-> "load_and_index_data", variant |-> variant, raised |-> FALSE,
          ne |-> ne, na |-> na, nl |-> nl]

\* load_and_index_data on files of ne, na and nl records: it clears and
\* fills the objects of the three handles
Ingest(ne, na, nl, fault) ==
    \E r \in {LoadAndIndexData(HandleStores(indexes, handles), db, ne, na, nl, fault)} :
       /\ ingest = Idle
       /\ indexes' = PutShared(indexes, handles, r.indexes)
       /\ handles' = PutDetached(handles, r.indexes)
       /\ db' = r.db
       /\ resp' = IngestOutcome("Task_2", ne, na, nl, r.raised)
       /\ UNCHANGED <<ivars, order, disk, cvars>>

DoLoadAndIndexData ==
    \E ne \in 0..MaxLen, na \in 0..(MaxLen + 1), nl \in 0..MaxLen, fault \in IngestFaults :
        Ingest(ne, na, nl, fault)

\* query(QueryTexts[i], use_structured) of Task_2; `during` is where a
\* load_and_index_data under way stands
UserQuery(i, use_structured, fault) ==
    \E r \in {Query(indexes, db, QueryTexts[i], use_structured, fault)} :
       /\ resp' = [op |-> "query", variant |-> "Task_2", text |-> QueryTexts[i],
                   use_structured |-> use_structured, fault |-> fault,
                   raised |-> r.raised, response |-> r.response, calls |-> r.calls,
                   semantic |-> r.semantic, kept |-> r.kept, during |-> ingest.pc]
       /\ UNCHANGED <<ivars, indexes, db, order, disk, handles, cvars>>

DoQuery ==
    \E i \in DOMAIN QueryTexts, use_structured \in BOOLEAN, fault \in QueryFaults :
        UserQuery(i, use_structured, fault)

DoQueryT2 ==
    \E i \in DOMAIN QueryTexts, use_structured \in BOOLEAN, fault \in QueryFaults :
        \E r \in {QueryT2(indexes, db, QueryTexts[i], use_structured, fault)} :
           /\ resp' = [op |-> "query", variant |-> "task2", text |-> QueryTexts[i],
                       use_structured |-> use_structured, fault |-> fault,
                       raised |-> r.raised, response |-> r.response, calls |-> r.calls,
                       semantic |-> r.semantic, kept |-> r.kept]
           /\ UNCHANGED <<ivars, indexes, db, order, disk, handles, cvars>>

IndexNames == {"all", "leave", "policies"}

\* query_semantic(QueryTexts[i], index_name, k) on the registry
SemanticQuery(i, index_name, k) ==
    \E r \in {QuerySemantic(indexes, QueryTexts[i], index_name, k, "none")} :
       /\ resp' = [op |-> "query_semantic", text |-> QueryTexts[i],
                   index_name |-> index_name, k |-> k,
                   raised |-> r.raised, semantic |-> r.value]
       /\ UNCHANGED <<ivars, indexes, db, order, disk, handles, cvars>>

DoQuerySemantic ==
    \E i \in DOMAIN QueryTexts, index_name \in IndexNames, k \in Ks :
        SemanticQuery(i, index_name, k)

Next == DoLoadAndIndexData \/ DoQuery \/ DoQueryT2 \/ DoQuerySemantic

Spec == Init /\ [][Next]_vars

(***************************************************************************)
(* SpecRegistry: the retriever's registry with indexes created, filled and *)
(* searched by name. Its operations go through the registry alone; the     *)
(* three handles of the retriever are not part of this specification.      *)
(***************************************************************************)
InitRegistry ==
    /\ store = NewStore(Dim, "flat")
    /\ files = [index |-> NoFile, docs |-> NoFile]
    /\ out = [op |-> "init", raised |-> FALSE]
    /\ indexes = [c \in Range(Categories) |-> NewStore(Dim, "flat")]
    /\ db = <<>>
    /\ resp = [op |-> "init", raised |-> FALSE]
    /\ order = Categories
    /\ disk = [n \in RegNames |-> NoArtifacts]
    /\ handles = <<>>
    /\ ingest = Idle
    /\ pending = <<>>

DoCreateIndex ==
    \E name \in RegNames, index_type \in IndexTypes :
        \E r \in {ManagerCreateIndex(indexes, order, name, index_type)} :
           /\ indexes' = r.indexes
           /\ order' = r.order
           /\ resp' = [op |-> "create_index", raised |-> FALSE, name |-> name,
                       index_type |-> index_type,
                       held |-> IF name \in DOMAIN indexes
                                THEN indexes[name].index.ntotal ELSE 0]
           /\ UNCHANGED <<ivars, db, disk, handles, cvars>>

\* get_index(name).add_documents([the next document of that category])
DoAddTo ==
    \E name \in DOMAIN indexes :
        \E documents \in {<<RegistryDoc(name, Len(indexes[name].documents) + 1)>>} :
            \E kmeans \in KMeansOutcomes(indexes[name], documents) :
                \E r \in {AddDocuments(indexes[name], documents, kmeans)} :
                   /\ Len(r.store.documents) <= RegistryLen
                   /\ indexes' = [indexes EXCEPT ![name] = r.store]
                   /\ resp' = [op |-> "add", raised |-> r.raised, name |-> name]
                   /\ UNCHANGED <<ivars, db, order, disk, handles, cvars>>

DoSearchAll ==
    \E q \in QueryVectors, k \in Ks :
        \E r \in {SearchAll(indexes, order, q, k)} :
           /\ resp' = [op |-> "search_all", raised |-> r.raised, q |-> q, k |-> k,
                       value |-> r.value]
           /\ UNCHANGED <<ivars, indexes, db, order, disk, handles, cvars>>

NextRegistry == DoCreateIndex \/ DoAddTo \/ DoSearchAll \/ DoQuerySemantic

SpecRegistry == InitRegistry /\ [][NextRegistry]_vars

(***************************************************************************)
(* SpecLoadAll: the retriever's registry saved to and loaded from disk     *)
(***************************************************************************)
\* the lists of names handed to load_all (load_indexes hands the first)
LoadLists == {Categories, <<"leave", "attendance", "employees">>}

\* a new process: HybridRAGSystem.__init__ again, the files on disk stay
DoRestart ==
    /\ indexes' = [c \in Range(Categories) |-> NewStore(Dim, "flat")]
    /\ order' = Categories
    /\ resp' = [op |-> "init", raised |-> FALSE]
    /\ UNCHANGED <<ivars, db, disk, handles, cvars>>

\* save_all(base_path) in which the save at place failAt raises with fault
SaveIndexes(failAt, fault) ==
    /\ (failAt = 0) <=> (fault = "none")
    /\ \E r \in {SaveAll(indexes, order, disk, failAt, fault, 1)} :
          /\ disk' = r.disk
          /\ resp' = [op |-> "save_all", raised |-> r.raised]
          /\ UNCHANGED <<ivars, indexes, db, order, handles, cvars>>

DoSaveAll ==
    \E failAt \in 0..Len(order), fault \in SaveFaults : SaveIndexes(failAt, fault)

DoLoadAll ==
    \E index_names \in LoadLists :
        \E r \in {LoadAll(indexes, order, disk, index_names, 1)} :
           /\ indexes' = r.indexes
           /\ order' = r.order
           /\ resp' = [op |-> "load_all", raised |-> r.raised,
                       index_names |-> index_names, reported |-> r.reported,
                       loaded |-> r.loaded]
           /\ UNCHANGED <<ivars, db, disk, handles, cvars>>

\* self.employee_index.add_documents(emp_embeddings), one record at a time
DoAddEmployees ==
    \E documents \in {<<RegistryDoc("employees", Len(indexes["employees"].documents) + 1)>>} :
        \E r \in {AddDocuments(indexes["employees"], documents, <<>>)} :
           /\ Len(r.store.documents) <= RegistryLen
           /\ r.store.index.ntotal <= RegistryLen
           /\ indexes' = [indexes EXCEPT !["employees"] = r.store]
           /\ resp' = [op |-> "add", raised |-> r.raised, name |-> "employees"]
           /\ UNCHANGED <<ivars, db, order, disk, handles, cvars>>

NextLoadAll == DoAddEmployees \/ DoSaveAll \/ DoLoadAll \/ DoRestart

SpecLoadAll == InitRegistry /\ [][NextLoadAll]_vars

(***************************************************************************)
(* Claims about one FAISSVectorStore (SpecIndex)                           *)
(***************************************************************************)
\* C1: after any sequence of add_documents and clear calls, failing and
\* empty adds included, get_stats reports total_vectors = total_documents.
C1_VectorsEqualDocuments ==
    GetStats(store).total_vectors = GetStats(store).total_documents

\* C1 witness: an add has just failed on an index that holds vectors.
C1_Witness ==
    /\ out.op = "add" /\ out.raised
    /\ GetStats(store).total_vectors >= 1
    /\ store.index_type = "ivf"

\* a slot's label names a stored vector
ValidLabel(s, label) == 0 <= label /\ label < s.index.ntotal

\* C2: every pair search returns is the document added with the vector at a
\* position the index reported as a hit, with the similarity computed from
\* that vector's distance to the query.
C2_ResultsAreReportedHits ==
    (out.op = "search" /\ ~out.raised) =>
        \A i \in DOMAIN out.value :
            /\ ValidLabel(store, out.value[i].label)
            /\ out.value[i].doc = store.documents[out.value[i].label + 1]
            /\ out.value[i].similarity =
                   Similarity(L2(store.index.xb[out.value[i].label + 1], out.q))

BadBatch(documents) ==
    \E i \in DOMAIN documents :
        ~HasEmbedding(documents[i]) \/ Len(documents[i].embedding) # Dim

\* C10: add_documents of a batch holding a document without 'embedding' or
\* with an embedding of the wrong length raises and leaves the vector store
\* and the document sequence as they were.
C10_FailedAddChangesNothing ==
    [][(out'.op = "add" /\ BadBatch(out'.arg)) =>
          /\ out'.raised
          /\ store'.documents = store.documents
          /\ store'.index.xb = store.index.xb
          /\ store'.index.ntotal = store.index.ntotal]_vars

\* C10 witness: a wrong-dimension document was offered to an index that
\* holds a vector, and the add failed.
C10_Witness ==
    /\ out.op = "add" /\ out.raised
    /\ DocWrongDim \in Range(out.arg)
    /\ store.index.ntotal >= 1

\* C10 witness of the mixed case: a valid document ahead of an invalid one.
C10_WitnessMixed ==
    /\ out.op = "add" /\ out.raised
    /\ Len(out.arg) >= 2 /\ out.arg[1] \in GoodDocs /\ out.arg[2] \notin GoodDocs

\* the similarities of a result list never increase
NonIncreasing(results) ==
    \A i \in 1..(Len(results) - 1) :
        RatLeq(results[i + 1].similarity, results[i].similarity)

\* C11: search(q, k) returns at most k (document, similarity) pairs, listed
\* in non-increasing order of similarity.
C11_SearchBoundedAndSorted ==
    (out.op = "search" /\ ~out.raised) =>
        /\ Len(out.value) <= out.k
        /\ NonIncreasing(out.value)

\* C11 witness: a search returned two stored vectors at different distances.
C11_Witness ==
    /\ out.op = "search" /\ ~out.raised
    /\ Len(out.value) >= 2
    /\ ValidLabel(store, out.value[1].label) /\ ValidLabel(store, out.value[2].label)
    /\ out.value[1].similarity # out.value[2].similarity

\* C12: search on an index that holds no vectors returns the empty list for
\* every query vector and every k, without raising and without changing the
\* index.
C12_EmptySearch ==
    [][(out'.op = "search" /\ store.index.ntotal = 0) =>
          /\ ~out'.raised
          /\ out'.value = <<>>
          /\ store' = store
          /\ \A q \in QueryVectors, k \in Ks :
                 Search(store, q, k) = [raised |-> FALSE, value |-> <<>>]]_vars

\* C12 witness: a clustered index without vectors was searched with k > 1.
C12_Witness ==
    /\ out.op = "search" /\ store.index.ntotal = 0
    /\ store.index_type = "ivf" /\ out.k >= 2

\* C19: clear returns the index to Empty from any state: vector count and
\* document count are 0, search returns the empty list, dimension and index
\* type are as before, and a following add behaves as on a freshly
\* constructed index of that type.
C19_ClearReturnsToEmpty ==
    [][(out'.op = "clear") =>
          LET fresh == NewStore(store.dimension, store.index_type)
          IN /\ GetStats(store').total_vectors = 0
             /\ GetStats(store').total_documents = 0
             /\ store'.dimension = store.dimension
             /\ store'.index_type = store.index_type
             /\ \A q \in QueryVectors, k \in Ks :
                    Search(store', q, k) = [raised |-> FALSE, value |-> <<>>]
             /\ \A documents \in Batches :
                    \A kmeans \in KMeansOutcomes(fresh, documents) :
                        AddDocuments(store', documents, kmeans)
                            = AddDocuments(fresh, documents, kmeans)]_vars

\* C19 witness: a trained clustered index that held vectors was cleared.
C19_Witness ==
    /\ out.op = "clear" /\ out.discarded >= 2
    /\ store.index_type = "ivf" /\ ~store.index.is_trained

\* C26: search(q, k) on an index holding n >= 1 vectors with k > n returns at
\* most n pairs, each of a distinct stored position: a slot the index filled
\* with its "no hit" marker (position -1) gives no result and is never used
\* as a position in the document list.
C26_NoHitSlotsAreDropped ==
    (/\ out.op = "search" /\ ~out.raised
     /\ store.index.ntotal >= 1 /\ out.k > store.index.ntotal) =>
        /\ Len(out.value) <= store.index.ntotal
        /\ \A i \in DOMAIN out.value : out.value[i].label # NoHitLabel
        /\ \A i, j \in DOMAIN out.value :
               out.value[i].label = out.value[j].label => i = j

(***************************************************************************)
(* SpecPersist: one store, ingested in corpus order, saved and loaded      *)
(***************************************************************************)
\* the i-th document of the corpus being ingested
CorpusDoc(i) ==
    LET n == ((i - 1) % NDocs) + 1 IN [id |-> n, embedding |-> VectorOf(n, Dim)]

\* the next m documents after the ones the store holds
NextBatch(s, m) == [j \in 1..m |-> CorpusDoc(Len(s.documents) + j)]

DoIngest ==
    \E m \in 1..MaxBatch :
        \E kmeans \in KMeansOutcomes(store, NextBatch(store, m)) :
            LET r == AddDocuments(store, NextBatch(store, m), kmeans)
            IN /\ Len(r.store.documents) <= MaxLen
               /\ r.store.index.ntotal <= MaxLen
               /\ store' = r.store
               /\ out' = [op |-> "add", raised |-> r.raised, arg |-> NextBatch(store, m)]
               /\ UNCHANGED <<files, rvars>>

DoSave ==
    \E fault \in SaveFaults :
        LET r == Save(store, files, fault)
        IN /\ files' = r.files
           /\ out' = [op |-> "save", raised |-> r.raised, fault |-> fault]
           /\ UNCHANGED <<store, rvars>>

DoLoad ==
    LET r == Load(store, files)
    IN /\ store' = r.store
       /\ out' = [op |-> "load", raised |-> r.raised]
       /\ UNCHANGED <<files, rvars>>

NextPersist == DoIngest \/ DoClear \/ DoSave \/ DoLoad

SpecPersist == InitIndex /\ [][NextPersist]_vars

(***************************************************************************)
(* Claims about persistence (SpecPersist)                                  *)
(***************************************************************************)
\* C6: after a save, loading the two artifacts into a freshly constructed
\* index gives an index whose search(q, k) returns the same documents in the
\* same order with the same similarities, for every q and k.
C6_SaveLoadRoundTrip ==
    (out.op = "save" /\ ~out.raised) =>
        LET l == Load(FreshStore, files)
        IN /\ ~l.raised
           /\ \A q \in QueryVectors, k \in Ks :
                  /\ Search(l.store, q, k).raised = Search(store, q, k).raised
                  /\ Pairs(Search(l.store, q, k).value) = Pairs(Search(store, q, k).value)

\* C6 witness: a populated clustered index has just been saved.
C6_Witness ==
    /\ out.op = "save" /\ ~out.raised
    /\ store.index_type = "ivf"
    /\ Len(store.documents) >= 2 /\ store.index.ntotal = Len(store.documents)

\* C7: whenever both artifacts are on disk, loading them together gives
\* vector_count = document_count with the documents in insertion order of
\* the vectors.
C7_ArtifactsConsistent ==
    (files.index.state = "faiss" /\ files.docs.state = "pickle") =>
        LET l == Load(FreshStore, files).store
        IN /\ l.index.ntotal = Len(l.documents)
           /\ \A i \in DOMAIN l.documents : l.documents[i].embedding = l.index.xb[i]

\* C27: load either succeeds, with as many documents as vectors and the
\* documents in the order of the loaded vectors, or fails and leaves the
\* vector store and the document list as they were; it never leaves a newly
\* loaded vector store with the previous document list.
C27_LoadIsAllOrNothing ==
    [][(out'.op = "load") =>
          IF out'.raised THEN store' = store
          ELSE /\ store'.index.ntotal = Len(store'.documents)
               /\ \A i \in DOMAIN store'.documents :
                      store'.documents[i].embedding = store'.index.xb[i]]_vars

(***************************************************************************)
(* SpecFilter: one store filled from a catalogue, searched with a filter   *)
(***************************************************************************)
\* the i-th document of the catalogue
CatalogueDoc(i) == [id |-> i, embedding |-> VectorOf(i, Dim)]

\* the next m documents of the catalogue after the ones the store holds
CatalogueBatch(s, m) == [j \in 1..m |-> CatalogueDoc(Len(s.documents) + j)]

DoCatalogueAdd ==
    \E m \in 1..MaxBatch :
        \E kmeans \in KMeansOutcomes(store, CatalogueBatch(store, m)) :
            \E r \in {AddDocuments(store, CatalogueBatch(store, m), kmeans)} :
               /\ Len(r.store.documents) <= FilterDocs
               /\ store' = r.store
               /\ out' = [op |-> "add", raised |-> r.raised]
               /\ UNCHANGED <<files, rvars>>

DoSearchWithFilter ==
    \E q \in QueryVectors, k \in Ks, filter_func \in FilterFuncs :
        \E r \in {SearchWithFilter(store, q, k, filter_func)} :
           /\ out' = [op |-> "search_with_filter", raised |-> r.raised, q |-> q,
                      k |-> k, filter_func |-> filter_func, value |-> r.value]
           /\ UNCHANGED <<store, files, rvars>>

NextFilter == DoCatalogueAdd \/ DoSearchWithFilter \/ DoClear

SpecFilter == InitIndex /\ [][NextFilter]_vars

\* C20: search_with_filter(q, k, predicate) returns the first k elements, in
\* order, of the predicate-satisfying subsequence of search(q, min(5k,
\* total)): at most k results, each satisfying the predicate, in
\* non-increasing similarity; with no predicate, the first k candidates.
C20_FilteredSearch ==
    (out.op = "search_with_filter" /\ ~out.raised) =>
        LET candidates == Search(store, out.q, Min2(5 * out.k, store.index.ntotal)).value
            passing == SelectSeq(candidates,
                                 LAMBDA r : out.filter_func = NoFilter
                                            \/ FilterCall(out.filter_func, r.doc))
        IN /\ out.value = SubSeq(passing, 1, Min2(out.k, Len(passing)))
           /\ Len(out.value) <= out.k
           /\ \A i \in DOMAIN out.value :
                  out.filter_func = NoFilter \/ FilterCall(out.filter_func, out.value[i].doc)
           /\ NonIncreasing(out.value)
           /\ out.filter_func = NoFilter =>
                  out.value = SubSeq(candidates, 1, Min2(out.k, Len(candidates)))

\* C20 witness: the index holds more than 5k vectors, a stored document
\* satisfies the predicate, and the filtered search returned nothing
\* because that document is not among the 5k candidates.
C20_Witness ==
    /\ out.op = "search_with_filter" /\ ~out.raised
    /\ out.filter_func # NoFilter
    /\ 5 * out.k < store.index.ntotal
    /\ \E i \in DOMAIN store.documents : FilterCall(out.filter_func, store.documents[i])
    /\ out.value = <<>>

\* C25: on an ivf index every append of vectors happens on a trained index:
\* the first non-empty add after construction or after clear trains on the
\* incoming batch before appending, and no later add up to the next clear
\* trains again.
C25_TrainedOncePerLifetime ==
    [][(out'.op = "add" /\ store.index_type = "ivf"
        /\ store'.index.ntotal > store.index.ntotal) =>
          LET appended == SubSeq(store'.index.xb, store.index.ntotal + 1,
                                 store'.index.ntotal)
          IN /\ store'.index.is_trained
             /\ store.index.is_trained =>
                    store'.index.centroids = store.index.centroids
             /\ ~store.index.is_trained =>
                    /\ store.index.ntotal = 0
                    /\ Len(store'.index.centroids) = n_list
                    /\ Range(store'.index.centroids) \subseteq Range(appended)
             /\ (store.index.ntotal = 0) => ~store.index.is_trained]_vars

\* C25 witness: an ivf index that its first add trained has taken a further
\* add.
C25_Witness ==
    /\ out.op = "add" /\ ~out.raised
    /\ store.index_type = "ivf" /\ store.index.is_trained
    /\ store.index.ntotal > n_list

(***************************************************************************)
(* SpecNumeric: the distance-to-similarity transform in floating point     *)
(*                                                                         *)
(* faiss reports float32 distances and search computes 1 / (1 + dist) in   *)
(* binary floating point: each operation rounds its exact result to the    *)
(* nearest number with FloatPrecision significant bits, ties to even. The  *)
(* precision is scaled down from the 24 bits of float32; Similarity above  *)
(* is the same transform on the small integer distances of the index       *)
(* model, where it is taken exactly.                                       *)
(***************************************************************************)
FloatPrecision == 4

\* x / 2^e for a fraction x = <<n, d>>
Scaled(x, e) == IF e >= 0 THEN <<x[1], x[2] * 2^e>> ELSE <<x[1] * 2^(-e), x[2]>>

\* m * 2^e as a fraction
Float(m, e) == IF e >= 0 THEN Rat(m * 2^e, 1) ELSE Rat(m, 2^(-e))

RoundExps == (-(MaxExp + 2 * FloatPrecision))..(MaxExp + 1)

\* round-to-nearest, ties-to-even, of a non-negative fraction
FloatRound(x) ==
    IF x[1] = 0 THEN <<0, 1>>
    ELSE LET e == CHOOSE c \in RoundExps :
                      /\ 2^(FloatPrecision - 1) * Scaled(x, c)[2] <= Scaled(x, c)[1]
                      /\ Scaled(x, c)[1] < 2^FloatPrecision * Scaled(x, c)[2]
             N == Scaled(x, e)[1]
             D == Scaled(x, e)[2]
             q == N \div D
             r == N % D
             m == IF 2 * r > D \/ (2 * r = D /\ q % 2 = 1) THEN q + 1 ELSE q
         IN Float(m, e)

\* the distances the index can report: 0 and the floating-point numbers of
\* the exponent range, the largest standing for FLT_MAX
FloatDistances ==
    {<<0, 1>>} \cup {Float(m, e) : m \in (2^(FloatPrecision - 1))..(2^FloatPrecision - 1),
                                  e \in (-MaxExp)..MaxExp}

\* a transform that forgets the 1 + of the denominator
FloatSimilarityNoShift(dist) ==
    IF dist[1] = 0 THEN <<1, 1>> ELSE FloatRound(<<dist[2], dist[1]>>)

\* similarity = 1 / (1 + dist), each operation rounded
FloatSimilarity(dist) ==
    LET sum == FloatRound(RatAdd(<<1, 1>>, dist))
    IN FloatRound(<<sum[2], sum[1]>>)

\* the inputs: two reported distances d1 < d2
InitNumeric ==
    /\ store = NewStore(Dim, "flat")
    /\ files = [index |-> NoFile, docs |-> NoFile]
    /\ out \in {[op |-> "input", raised |-> FALSE, d1 |-> d[1], d2 |-> d[2]] :
                   d \in {p \in FloatDistances \X FloatDistances : RatLt(p[1], p[2])}}
    /\ indexes = <<>>
    /\ db = <<>>
    /\ resp = [op |-> "init", raised |-> FALSE]
    /\ order = <<>>
    /\ disk = <<>>
    /\ handles = <<>>
    /\ ingest = Idle
    /\ pending = <<>>

DoSimilarity ==
    /\ out.op = "input"
    /\ out' = [op |-> "similarity", raised |-> FALSE, d1 |-> out.d1, d2 |-> out.d2,
               s1 |-> FloatSimilarity(out.d1), s2 |-> FloatSimilarity(out.d2)]
    /\ UNCHANGED <<store, files, rvars>>

NextNumeric == DoSimilarity

SpecNumeric == InitNumeric /\ [][NextNumeric]_vars

RECURSIVE FlattenAll(_, _)
FlattenAll(value, ord) ==
    IF ord = <<>> THEN <<>>
    ELSE FlattenAll(value, SubSeq(ord, 1, Len(ord) - 1)) \o value[ord[Len(ord)]]

\* C14: the merged result of the semantic path equals the results of
\* search_all(q, k) over every registered category, flattened, sorted by
\* descending similarity and cut to the first k.
C14_SemanticPathIsSearchAll ==
    (resp.op = "query_semantic" /\ resp.index_name = "all") =>
        LET all == SearchAll(indexes, order, EmbedText(resp.text), resp.k)
        IN /\ resp.raised = all.raised
           /\ ~resp.raised =>
                  resp.semantic =
                      Take(SortBySimilarityDesc(FlattenAll(all.value, order)), resp.k)

\* C17: search_all(q, k) returns a mapping whose keys are exactly the
\* registered names and whose value for each name is that index's own
\* search(q, k).
C17_SearchAllPerIndex ==
    (resp.op = "search_all" /\ ~resp.raised) =>
        /\ DOMAIN resp.value = DOMAIN indexes
        /\ \A name \in DOMAIN indexes :
               resp.value[name] = Search(indexes[name], resp.q, resp.k).value

\* C17 witness: search_all over four names, one index empty and one that
\* returned k pairs.
C17_Witness ==
    /\ resp.op = "search_all" /\ ~resp.raised
    /\ Cardinality(DOMAIN resp.value) = 4
    /\ \E a, b \in DOMAIN resp.value :
           /\ resp.value[a] = <<>>
           /\ Len(resp.value[b]) = resp.k /\ resp.k >= 2

\* C18: create_index(name) on a registered name replaces its index with a
\* new empty one without error: get_index(name) then returns the new index
\* (no vectors, the registry's dimension) and every other registered name
\* maps to its previous index, contents unchanged.
C18_CreateIndexReplaces ==
    [][(resp'.op = "create_index" /\ resp'.name \in DOMAIN indexes) =>
          /\ ~resp'.raised
          /\ ~GetIndex(indexes', resp'.name).raised
          /\ GetStats(GetIndex(indexes', resp'.name).value).total_vectors = 0
          /\ GetStats(GetIndex(indexes', resp'.name).value).total_documents = 0
          /\ GetStats(GetIndex(indexes', resp'.name).value).dimension = Dim
          /\ DOMAIN indexes' = DOMAIN indexes
          /\ \A other \in DOMAIN indexes \ {resp'.name} :
                 indexes'[other] = indexes[other]]_vars

\* C18 witness: a name whose index held vectors has just been registered
\* again, while another index holds vectors.
C18_Witness ==
    /\ resp.op = "create_index" /\ resp.held >= 1
    /\ indexes[resp.name].index.ntotal = 0
    /\ \E other \in DOMAIN indexes : indexes[other].index.ntotal > 0
    /\ resp.name \in Range(Categories)

(***************************************************************************)
(* Claims about load_all (SpecLoadAll)                                     *)
(***************************************************************************)
\* both artifacts of a name are on disk and intact
Intact(name) == disk[name].index.state = "faiss" /\ disk[name].docs.state = "pickle"

\* an artifact of a name is missing
Missing(name) == ~Exists(disk[name].index) \/ ~Exists(disk[name].docs)

\* both artifacts of a name are on disk and one does not read back
Unreadable(name) == ~Missing(name) /\ ~Intact(name)

\* C15: in load_all a category with a missing artifact is a fatal error for
\* that category only: it is not loaded and the failure is reported for it,
\* while every other listed category whose two artifacts exist is loaded.
C15_MissingArtifactIsReported ==
    [][(resp'.op = "load_all") =>
          \A name \in Range(resp'.index_names) :
              /\ Missing(name) =>
                     /\ name \notin resp'.loaded
                     /\ indexes'[name] = indexes[name]
                     /\ name \in resp'.reported
              /\ Intact(name) =>
                     /\ name \in resp'.loaded
                     /\ indexes'[name] = Load(FreshStore, disk[name]).store]_vars

\* C16: when loading one category fails on a corrupt or unreadable
\* artifact, every other listed category with valid artifacts is loaded and
\* searchable afterwards, wherever it stands in the list.
C16_CorruptArtifactIsIsolated ==
    [][(resp'.op = "load_all"
        /\ \E bad \in Range(resp'.index_names) : Unreadable(bad)) =>
          \A name \in Range(resp'.index_names) :
              Intact(name) =>
                  /\ name \in resp'.loaded
                  /\ indexes'[name] = Load(FreshStore, disk[name]).store
                  /\ \A q \in QueryVectors, k \in Ks :
                         ~Search(indexes'[name], q, k).raised]_vars

(***************************************************************************)
(* Claims about the retriever (Spec)                                       *)
(***************************************************************************)
\* the employee identifiers a text contains: every match of emp\d+ in any
\* letter case, as the store spells it
IdentifiersIn(text) ==
    UNION {{UpperWord(Slice(LowerWord(text[n]), i, DigitsEnd(LowerWord(text[n]), i + 3))) :
               i \in EmpMatches(LowerWord(text[n]))} : n \in DOMAIN text}

\* the identifiers of the text for which the store holds a record
KnownIdentifiers(collection, text) ==
    {id \in IdentifiersIn(text) : FindOne(collection, id) # None}

\* the query whose response is in resp took the semantic path and returned
SemanticPath == resp.op = "query" /\ ~resp.raised /\ resp.calls.embed = 1

\* C3: when use_structured is enabled and the query text contains an employee
\* identifier for which the structured store holds a record, query returns a
\* response with search method "structured" whose sources are exactly that
\* one record, and neither the embedding provider nor any vector index is
\* invoked.
C3_StructuredLookup ==
    (/\ resp.op = "query" /\ resp.use_structured /\ resp.fault = "none"
     /\ KnownIdentifiers(db, resp.text) # {}) =>
        /\ ~resp.raised
        /\ resp.response.search_method = "structured"
        /\ \E id \in KnownIdentifiers(db, resp.text) :
               resp.response.sources = <<FindOne(db, id)>>
        /\ resp.calls.embed = 0
        /\ resp.calls.searched = <<>>

\* C4: the list query_semantic merges from all categories for a requested k
\* is sorted by non-increasing similarity, has at most k elements, and each
\* element (document, similarity) is an element of the search result of the
\* index of the document's category, with the same similarity.
C4_MergedSortedBoundedFaithful ==
    LET merged == resp.semantic
        k == IF resp.op = "query" THEN TOP_K_RESULTS ELSE resp.k
    IN (SemanticPath \/ (resp.op = "query_semantic" /\ resp.index_name = "all"
                         /\ ~resp.raised)) =>
          /\ \A i \in 1..(Len(merged) - 1) :
                 RatLeq(merged[i + 1].similarity, merged[i].similarity)
          /\ Len(merged) <= k
          /\ \A i \in DOMAIN merged :
                 <<merged[i].doc, merged[i].similarity>> \in
                     Range(Pairs(Search(indexes[merged[i].doc.cat],
                                        EmbedText(resp.text), k).value))

\* C4 witness: a merge over all categories that had more candidates than k,
\* kept k of them from more than one category and with unequal similarities.
C4_Witness ==
    /\ resp.op = "query_semantic" /\ resp.index_name = "all" /\ ~resp.raised
    /\ Len(resp.semantic) = resp.k
    /\ \A c \in Range(Categories) : Len(indexes[c].documents) > 0
    /\ \E i, j \in DOMAIN resp.semantic :
           /\ resp.semantic[i].doc.cat # resp.semantic[j].doc.cat
           /\ resp.semantic[i].similarity # resp.semantic[j].similarity

\* thresholds the monotonicity of the filter is tried on
Thresholds == {Rat(0, 1), Rat(1, 5), SIMILARITY_THRESHOLD, Rat(1, 2), Rat(1, 1)}

\* C5: on the semantic path every result kept has similarity >= the
\* configured threshold, and for thresholds t1 <= t2 the results kept under
\* t2 are among those kept under t1 and are no more numerous.
C5_ThresholdKeeps ==
    SemanticPath =>
        /\ \A i \in DOMAIN resp.kept :
               RatLeq(SIMILARITY_THRESHOLD, resp.kept[i].similarity)
        /\ \A i \in DOMAIN resp.response.sources :
               \E j \in DOMAIN resp.semantic :
                   /\ resp.semantic[j].doc = resp.response.sources[i]
                   /\ RatLeq(SIMILARITY_THRESHOLD, resp.semantic[j].similarity)
        /\ \A t1, t2 \in Thresholds :
               RatLeq(t1, t2) =>
                   /\ Range(Threshold(resp.semantic, t2))
                          \subseteq Range(Threshold(resp.semantic, t1))
                   /\ Len(Threshold(resp.semantic, t2))
                          <= Len(Threshold(resp.semantic, t1))

\* C5 witness: the threshold kept some of the merged results and dropped
\* others.
C5_Witness ==
    /\ SemanticPath
    /\ resp.kept # <<>>
    /\ Len(resp.kept) < Len(resp.semantic)
    /\ resp.response.sources = Docs(resp.kept)

\* C8: when no structured match is used and the thresholded semantic list is
\* empty, query returns normally without calling the language model: a
\* response with confidence 0, no sources and search method "semantic".
C8_NothingFoundIsGraceful ==
    (/\ resp.op = "query" /\ resp.calls.embed = 1 /\ resp.fault # "embed"
     /\ resp.kept = <<>>) =>
        /\ ~resp.raised
        /\ resp.response.confidence = <<0, 1>>
        /\ resp.response.sources = <<>>
        /\ resp.response.search_method = "semantic"
        /\ resp.calls.llm = 0

\* C8 witness: the indexes returned results and the threshold dropped them
\* all.
C8_Witness ==
    /\ resp.op = "query" /\ resp.calls.embed = 1 /\ resp.fault # "embed"
    /\ resp.semantic # <<>> /\ resp.kept = <<>>
    /\ ~resp.raised

\* the merged similarities 0.9, 0.4, 0.2 of the spec's example
ExampleMerged ==
    <<[doc |-> 1, similarity |-> Rat(9, 10)], [doc |-> 2, similarity |-> Rat(4, 10)],
      [doc |-> 3, similarity |-> Rat(2, 10)]>>

\* C9: when results remain, the confidence of the response is the arithmetic
\* mean of the similarities of the kept results on the semantic path and the
\* one fixed constant of the program on the structured path; similarities
\* 0.9, 0.4, 0.2 under threshold 0.3 keep the first two and give 0.65.
C9_Confidence ==
    /\ (resp.op = "query" /\ ~resp.raised /\ resp.response.sources # <<>>) =>
          LET c == resp.response.confidence
              sum == RatSum(Similarities(resp.kept))
          IN IF resp.response.search_method = "semantic"
             THEN /\ resp.response.sources = Docs(resp.kept)
                  /\ c[1] * sum[2] * Len(resp.kept) = sum[1] * c[2]
             ELSE c = StructuredConfidence(resp.variant)
    /\ Docs(Threshold(ExampleMerged, SIMILARITY_THRESHOLD)) = <<1, 2>>
    /\ Confidence("Task_2", <<>>, Threshold(ExampleMerged, SIMILARITY_THRESHOLD))
           = <<13, 20>>

\* C9 witness: a semantic response whose kept results differ in similarity.
C9_Witness ==
    /\ SemanticPath
    /\ Len(resp.kept) >= 2
    /\ resp.kept[1].similarity # resp.kept[2].similarity
    /\ resp.response.search_method = "semantic"

\* C21: within one query the embedding provider is called at most once and
\* the language model at most once; when either call fails the query raises,
\* returns no response, and the failed call is not made again.
C21_SingleCallsFailuresPropagate ==
    resp.op = "query" =>
        /\ resp.calls.embed \in {0, 1}
        /\ resp.calls.llm \in {0, 1}
        /\ (resp.fault = "embed" /\ resp.calls.embed = 1) =>
               (resp.raised /\ resp.response = None /\ resp.calls.llm = 0)
        /\ (resp.variant = "task2" /\ resp.fault = "llm" /\ resp.calls.llm = 1) =>
               (resp.raised /\ resp.response = None)
        /\ resp.raised => resp.response = None

C21_Witness ==
    /\ resp.op = "query" /\ resp.variant = "task2"
    /\ resp.fault = "llm" /\ resp.calls = [embed |-> 1, searched |-> Categories, llm |-> 1]
    /\ resp.raised /\ resp.kept # <<>>

\* the words of a text that follow an explicit-name marker and match the
\* name of an employee of the collection
MarkedNames(collection, text) ==
    {text[i + 1] : i \in {j \in 1..(Len(text) - 1) :
                             /\ LowerWord(text[j]) \in Markers
                             /\ FindByName(collection, text[j + 1], 1) # <<>>}}

\* C22: a query with an explicit-name marker followed by a name, with
\* use_structured enabled and an employee of that name in the structured
\* store, is answered by structured lookup: search method "structured", the
\* sources are the matching employee records, semantic search is skipped.
C22_NameLookupIsStructured ==
    (/\ resp.op = "query" /\ resp.use_structured /\ resp.fault = "none"
     /\ MarkedNames(db, resp.text) # {}) =>
        /\ ~resp.raised
        /\ resp.response.search_method = "structured"
        /\ \E name \in MarkedNames(db, resp.text) :
               resp.response.sources = FindByName(db, name, Len(db))
        /\ resp.calls.embed = 0
        /\ resp.calls.searched = <<>>

\* the documents stored in the category indexes, each with its similarity
\* to the query vector qv
StoredWithSimilarity(qv) ==
    UNION {{[doc |-> indexes[c].documents[i],
             similarity |-> Similarity(L2(indexes[c].index.xb[i], qv))]
            : i \in DOMAIN indexes[c].documents} : c \in Range(Categories)}

\* C29: with flat indexes the merged result of the semantic fan-out is the
\* global top k over all stored documents: no stored document outside the
\* list is strictly more similar to the query than the last element of the
\* list, no stored document appears twice, and the list is shorter than k
\* only when fewer than k documents are stored in total.
C29_MergedIsGlobalTopK ==
    (resp.op = "query_semantic" /\ resp.index_name = "all" /\ ~resp.raised) =>
        LET merged == resp.semantic
            stored == StoredWithSimilarity(EmbedText(resp.text))
        IN /\ \A s \in stored :
                  (merged # <<>> /\ RatLt(merged[Len(merged)].similarity, s.similarity))
                      => \E i \in DOMAIN merged : merged[i].doc = s.doc
           /\ \A i, j \in DOMAIN merged : merged[i].doc = merged[j].doc => i = j
           /\ Len(merged) < resp.k => Cardinality(stored) < resp.k

(***************************************************************************)
(* SpecRebuild: bulk ingestion run again and again on one retriever, by    *)
(* the load_and_index_data of Task_2 and by that of task2.                 *)
(***************************************************************************)

\* load_and_index_data of task2 on a retriever whose indexes hold at most
\* RegistryLen documents each
DoLoadAndIndexDataT2 ==
    \E ne \in 0..MaxLen, na \in 0..(MaxLen + 1), nl \in 0..MaxLen, fault \in IngestFaults :
        \E h \in {HandleStores(indexes, handles)} :
           /\ ingest = Idle
           /\ \A c \in DOMAIN h : Len(h[c].documents) <= RegistryLen
           /\ \E r \in {LoadAndIndexDataT2(h, db, ne, na, nl, fault)} :
                 /\ indexes' = PutShared(indexes, handles, r.indexes)
                 /\ handles' = PutDetached(handles, r.indexes)
                 /\ db' = r.db
                 /\ resp' = IngestOutcome("task2", ne, na, nl, r.raised)
                 /\ UNCHANGED <<ivars, order, disk, cvars>>

NextRebuild == DoLoadAndIndexData \/ DoLoadAndIndexDataT2

SpecRebuild == Init /\ [][NextRebuild]_vars

\* the documents one run of load_and_index_data embeds for category c
RunDocs(c, r) ==
    CategoryDocs(c, IF c = "employees" THEN r.ne
                    ELSE IF c = "attendance" THEN Min2(r.na, AttendanceSample)
                    ELSE r.nl)

\* C30: after a completed load_and_index_data each of the three indexes
\* holds exactly the documents embedded in that run (all employees, the
\* first AttendanceSample attendance records at most, all leave records),
\* whatever the indexes held before
C30_IngestionIsFullRebuild ==
    (resp.op = "load_and_index_data" /\ ~resp.raised)
        => \A c \in Range(Categories) :
              /\ HandleStores(indexes, handles)[c].documents = RunDocs(c, resp)
              /\ HandleStores(indexes, handles)[c].index.ntotal = Len(RunDocs(c, resp))

(***************************************************************************)
(* SpecHandles: one retriever that ingests, saves its indexes, loads them  *)
(* back and answers semantic queries                                       *)
(***************************************************************************)

\* load_and_index_data on files of RegistryLen records at most per category
DoIngestFiles ==
    \E n \in 0..RegistryLen : Ingest(n, n, n, "none")

\* load_indexes: load_all of the three categories, then the three handles
\* are taken from the registry again; when load_all raises the handles keep
\* the objects they had, which the registry has replaced for the categories
\* loaded before the failure
DoLoadIndexes ==
    \E r \in {LoadAll(indexes, order, disk, Categories, 1)} :
       /\ indexes' = r.indexes
       /\ order' = r.order
       /\ handles' = [c \in DOMAIN handles |->
                         IF ~r.raised THEN Shared
                         ELSE IF c \in r.loaded /\ handles[c].shared
                         THEN Detached(indexes[c])
                         ELSE handles[c]]
       /\ resp' = [op |-> "load_indexes", raised |-> r.raised, loaded |-> r.loaded]
       /\ UNCHANGED <<ivars, db, disk, cvars>>

\* save_indexes, complete or interrupted while the documents of the second
\* category are written
DoSaveIndexes ==
    \E failAt \in {0, 2}, fault \in {"none", "pickle_dump"} : SaveIndexes(failAt, fault)

\* query_semantic over all categories with the largest k
DoQueryAll ==
    \E i \in {1} : SemanticQuery(i, "all", MaxK)

NextHandles == DoIngestFiles \/ DoSaveIndexes \/ DoLoadIndexes \/ DoQueryAll

SpecHandles == Init /\ [][NextHandles]_vars

\* C28: after any sequence of construction, load_and_index_data,
\* load_indexes (one that raises after some categories were loaded
\* included) and queries, each of the three handles is the object the
\* registry holds under its category, the one query_semantic searches
C28_HandlesAreRegistryObjects ==
    \A c \in Range(Categories) : handles[c] = Shared

(***************************************************************************)
(* SpecIngest: load_and_index_data of Task_2 taken statement by statement, *)
(* with queries of other callers between its statements. No search is in   *)
(* flight while a clear or an add_documents runs: each of them is one      *)
(* step.                                                                   *)
(***************************************************************************)

\* the statements of load_and_index_data on the three handles, in order
IngestPcs ==
    <<"clear_employees", "clear_attendance", "clear_leave",
      "add_employees", "add_attendance", "add_leave">>

\* the category a statement works on
PcCategory(pc) ==
    IF pc \in {"clear_employees", "add_employees"} THEN "employees"
    ELSE IF pc \in {"clear_attendance", "add_attendance"} THEN "attendance"
    ELSE "leave"

\* the position after the statement at pc: past the last one the run is over
PcAfter(pc) ==
    LET n == CHOOSE i \in DOMAIN IngestPcs : IngestPcs[i] = pc
    IN IF n = Len(IngestPcs) THEN "idle" ELSE IngestPcs[n + 1]

\* a run of load_and_index_data that stands before its first clear
NewRun(ne, na, nl, fault) ==
    [pc |-> "clear_employees", ne |-> ne, na |-> na, nl |-> nl, fault |-> fault]

\* the files are loaded and the records stored in the structured store
DoIngestBegin ==
    \E ne \in 0..RegistryLen, na \in 0..RegistryLen, nl \in 0..RegistryLen,
       fault \in IngestFaults :
        /\ ingest = Idle
        /\ IF fault = "load"
           THEN /\ resp' = IngestOutcome("Task_2", ne, na, nl, TRUE)
                /\ UNCHANGED <<db, ingest>>
           ELSE /\ db' = EmployeeRecords(ne)
                /\ ingest' = NewRun(ne, na, nl, fault)
                /\ UNCHANGED resp
        /\ UNCHANGED <<ivars, indexes, order, disk, handles, pending>>

\* self.employee_index.clear(), self.attendance_index.clear() or
\* self.leave_index.clear()
DoIngestClear ==
    \E h \in {HandleStores(indexes, handles)} :
       /\ ingest.pc \in {"clear_employees", "clear_attendance", "clear_leave"}
       /\ \E stores \in {[h EXCEPT ![PcCategory(ingest.pc)] = Clear(@)]} :
             /\ indexes' = PutShared(indexes, handles, stores)
             /\ handles' = PutDetached(handles, stores)
       /\ ingest' = [ingest EXCEPT !.pc = PcAfter(@)]
       /\ UNCHANGED <<ivars, db, resp, order, disk, pending>>

\* the embedding of one category's records and the add_documents on its
\* handle; after the last one the run ends
DoIngestAdd ==
    \E h \in {HandleStores(indexes, handles)}, c \in {PcCategory(ingest.pc)} :
       /\ ingest.pc \in {"add_employees", "add_attendance", "add_leave"}
       /\ IF ingest.fault = "embed_" \o c
          THEN /\ ingest' = Idle
               /\ resp' = IngestOutcome("Task_2", ingest.ne, ingest.na, ingest.nl, TRUE)
               /\ UNCHANGED <<indexes, handles>>
          ELSE \E r \in {AddDocuments(h[c], RunDocs(c, ingest), <<>>)} :
                  /\ \E stores \in {[h EXCEPT ![c] = r.store]} :
                        /\ indexes' = PutShared(indexes, handles, stores)
                        /\ handles' = PutDetached(handles, stores)
                  /\ ingest' = IF r.raised THEN Idle ELSE [ingest EXCEPT !.pc = PcAfter(@)]
                  /\ resp' = IF r.raised \/ PcAfter(ingest.pc) = "idle"
                             THEN IngestOutcome("Task_2", ingest.ne, ingest.na,
                                                ingest.nl, r.raised)
                             ELSE resp
       /\ UNCHANGED <<ivars, db, order, disk, pending>>

\* a query of another caller, with no fault of the embedding provider or
\* the LLM
DoQueryMeanwhile ==
    \E i \in DOMAIN QueryTexts, use_structured \in BOOLEAN :
        UserQuery(i, use_structured, "none")

NextIngest == DoIngestBegin \/ DoIngestClear \/ DoIngestAdd \/ DoQueryMeanwhile

SpecIngest == Init /\ [][NextIngest]_vars

\* the categories whose index holds documents
Populated(ix) == {c \in Range(Categories) : ix[c].documents # <<>>}

\* C24: a query put in any state of a bulk ingestion, between any two of
\* its statements or after a run that failed part-way, completes without
\* error, and every document of its semantic results is a stored document
\* of a category that is populated at that moment.
C24_QueryDuringIngestion ==
    [][(resp'.op = "query" /\ resp' # resp /\ ingest' = ingest) =>
          /\ ~resp'.raised
          /\ \A i \in DOMAIN resp'.semantic :
                /\ resp'.semantic[i].doc.cat \in Populated(indexes)
                /\ resp'.semantic[i].doc
                       \in Range(indexes[resp'.semantic[i].doc.cat].documents)]_vars

\* C24 witness: the employees are indexed and the leave records are not yet,
\* and a query put in this state has returned employee documents only.
C24_Witness ==
    /\ ingest.pc = "add_leave"
    /\ resp.op = "query" /\ resp.during = "add_leave" /\ ~resp.raised
    /\ indexes["employees"].documents # <<>>
    /\ indexes["leave"].documents = <<>>
    /\ resp.semantic # <<>>
    /\ \A i \in DOMAIN resp.semantic : resp.semantic[i].doc.cat = "employees"

(***************************************************************************)
(* SpecQueries: independent callers put read operations to one retriever   *)
(* whose indexes are filled; the operations advance one read of the shared *)
(* state at a time, in any interleaving. No add, clear or load runs.       *)
(***************************************************************************)
Callers == {"a", "b"}

\* a caller with no operation under way
NoOp == [pc |-> "none"]

\* the operations the callers put
Requests ==
    {[kind |-> "query", i |-> i, use_structured |-> u] : i \in {1, 2}, u \in BOOLEAN}
    \cup {[kind |-> "query_semantic", i |-> 2, index_name |-> "all", k |-> MaxK]}
    \cup {[kind |-> "search_all", i |-> 2, k |-> MaxK]}
    \cup {[kind |-> "search", i |-> 2, name |-> "employees", k |-> MaxK]}
    \cup {[kind |-> "search_with_filter", i |-> 2, name |-> "employees", k |-> 1,
           filter_func |-> [ids |-> {1}]]}
    \cup {[kind |-> "get_stats", name |-> "leave"]}

\* the end of query once _try_structured_query and query_semantic have
\* returned: threshold, prompt, LLM call and formatting
Respond(structured, semantic) ==
    IF structured # <<>>
    THEN Stamp(FormatResponse("Task_2", structured,
                              Confidence("Task_2", structured, <<>>)), "structured")
    ELSE LET kept == Threshold(semantic, SIMILARITY_THRESHOLD)
         IN IF kept = <<>> THEN NothingFound("Task_2", "semantic")
            ELSE Stamp(FormatResponse("Task_2", Docs(kept),
                                      Confidence("Task_2", <<>>, kept)), "semantic")

\* an operation that has returned value, or raised
Returned(op, value) == [op EXCEPT !.pc = "done", !.acc = value]

Raised(op) == [op EXCEPT !.pc = "done", !.acc = <<>>, !.raised = TRUE]

\* the next read of the shared state by the operation op, and the local
\* work that follows it up to the next read
ReaderStep(ix, ord, collection, op) ==
    LET rq == op.rq
    IN IF rq.kind = "get_stats" THEN Returned(op, GetStats(ix[rq.name]))
       ELSE IF rq.kind = "search"
       THEN LET r == Search(ix[rq.name], EmbedText(QueryTexts[rq.i]), rq.k)
            IN IF r.raised THEN Raised(op) ELSE Returned(op, r.value)
       ELSE IF rq.kind = "search_with_filter"
       THEN IF op.pc = "start"
            THEN [op EXCEPT !.pc = "search", !.n = Min2(rq.k * 5, ix[rq.name].index.ntotal)]
            ELSE LET r == Search(ix[rq.name], EmbedText(QueryTexts[rq.i]), op.n)
                 IN IF r.raised THEN Raised(op)
                    ELSE Returned(op, Prefix(Filtered(r.value, rq.filter_func), rq.k))
       ELSE IF rq.kind = "search_all"
       THEN LET n == IF op.pc = "start" THEN 1 ELSE op.n
                r == Search(ix[ord[n]], EmbedText(QueryTexts[rq.i]), rq.k)
                acc == Append(op.acc, r.value)
            IN IF r.raised THEN Raised(op)
               ELSE IF n = Len(ord)
               THEN Returned(op, [name \in Range(ord) |->
                                     acc[CHOOSE m \in DOMAIN ord : ord[m] = name]])
               ELSE [op EXCEPT !.pc = "search", !.n = n + 1, !.acc = acc]
       ELSE IF op.pc = "start"
       THEN LET structured == IF rq.kind = "query" /\ rq.use_structured
                              THEN TryStructuredQuery(collection, QueryTexts[rq.i])
                              ELSE <<>>
            IN IF structured # <<>> THEN Returned(op, Respond(structured, <<>>))
               ELSE [op EXCEPT !.pc = "search", !.n = 1]
       ELSE LET k == IF rq.kind = "query" THEN TOP_K_RESULTS ELSE rq.k
                r == IF Categories[op.n] \in DOMAIN ix
                     THEN Search(ix[Categories[op.n]], EmbedText(QueryTexts[rq.i]), k)
                     ELSE [raised |-> TRUE, value |-> <<>>]
                acc == Extend(op.acc, r.value)
                top == Take(SortBySimilarityDesc(acc), k)
            IN IF r.raised THEN Raised(op)
               ELSE IF op.n < Len(Categories)
               THEN [op EXCEPT !.n = op.n + 1, !.acc = acc]
               ELSE Returned(op, IF rq.kind = "query" THEN Respond(<<>>, top) ELSE top)

\* the same operation run alone on the state (ix, ord, collection)
Alone(ix, ord, collection, rq) ==
    IF rq.kind = "query"
    THEN LET r == Query(ix, collection, QueryTexts[rq.i], rq.use_structured, "none")
         IN [raised |-> r.raised, value |-> IF r.raised THEN <<>> ELSE r.response]
    ELSE IF rq.kind = "query_semantic"
    THEN LET r == QuerySemantic(ix, QueryTexts[rq.i], rq.index_name, rq.k, "none")
         IN [raised |-> r.raised, value |-> r.value]
    ELSE IF rq.kind = "search_all"
    THEN SearchAll(ix, ord, EmbedText(QueryTexts[rq.i]), rq.k)
    ELSE IF rq.kind = "search"
    THEN LET r == Search(ix[rq.name], EmbedText(QueryTexts[rq.i]), rq.k)
         IN [raised |-> r.raised, value |-> r.value]
    ELSE IF rq.kind = "search_with_filter"
    THEN SearchWithFilter(ix[rq.name], EmbedText(QueryTexts[rq.i]), rq.k, rq.filter_func)
    ELSE [raised |-> FALSE, value |-> GetStats(ix[rq.name])]

\* the retriever after a load_and_index_data that succeeded
InitQueries ==
    /\ store = NewStore(Dim, "flat")
    /\ files = [index |-> NoFile, docs |-> NoFile]
    /\ out = [op |-> "init", raised |-> FALSE]
    /\ \E ne \in 1..MaxLen, na \in 0..1 :
          \E r \in {LoadAndIndexData([c \in Range(Categories) |-> NewStore(Dim, "flat")],
                                     <<>>, ne, na, 1, "none")} :
             /\ indexes = r.indexes
             /\ db = r.db
    /\ resp = [op |-> "init", raised |-> FALSE]
    /\ order = Categories
    /\ disk = [n \in RegNames |-> NoArtifacts]
    /\ handles = [c \in Range(Categories) |-> Shared]
    /\ ingest = Idle
    /\ pending = [c \in Callers |-> NoOp]

\* a caller puts an operation
DoCall ==
    \E c \in Callers, rq \in Requests :
        /\ pending[c] = NoOp
        /\ pending' = [pending EXCEPT ![c] = [rq |-> rq, pc |-> "start", n |-> 0,
                                              acc |-> <<>>, raised |-> FALSE]]
        /\ UNCHANGED <<ivars, indexes, db, resp, order, disk, handles, ingest>>

\* an operation under way takes its next step; when it ends the caller has
\* its result
DoReaderStep ==
    \E c \in Callers :
        /\ pending[c] # NoOp
        /\ \E op \in {ReaderStep(indexes, order, db, pending[c])} :
              IF op.pc = "done"
              THEN /\ pending' = [pending EXCEPT ![c] = NoOp]
                   /\ resp' = [op |-> op.rq.kind, caller |-> c, rq |-> op.rq,
                               raised |-> op.raised, value |-> op.acc]
              ELSE /\ pending' = [pending EXCEPT ![c] = op]
                   /\ UNCHANGED resp
        /\ UNCHANGED <<ivars, indexes, db, order, disk, handles, ingest>>

NextQueries == DoCall \/ DoReaderStep

SpecQueries == InitQueries /\ [][NextQueries]_vars

\* C23: no step of query, query_semantic, search, search_with_filter,
\* search_all or get_stats changes an index (vectors, documents, trained
\* flag), the registry or a handle, and an operation that ends while other
\* callers' operations are under way returns what it returns when it runs
\* alone.
C23_ReadersDoNotInterfere ==
    [][/\ UNCHANGED <<indexes, order, handles, db>>
       /\ \A c \in Callers :
             (pending[c] # NoOp /\ pending'[c] = NoOp) =>
                 /\ resp'.rq = pending[c].rq /\ resp'.caller = c
                 /\ [raised |-> resp'.raised, value |-> resp'.value]
                        = Alone(indexes, order, db, pending[c].rq)]_vars

\* C23 witness: caller a's semantic query has returned documents while
\* caller b's query is between the searches of two categories.
C23_Witness ==
    /\ resp.op = "query" /\ resp.caller = "a" /\ ~resp.raised
    /\ resp.value.search_method = "semantic" /\ resp.value.sources # <<>>
    /\ pending["b"] # NoOp
    /\ pending["b"].rq.kind = "query" /\ pending["b"].pc = "search" /\ pending["b"].n = 2

====
